---- MODULE Spec2Model ----
(***************************************************************************)
(* A model of the Amazon product parser: the Coordinator's task workflow   *)
(* (core/coordinator.py), the content store (utils/file_utils.py), the     *)
(* A+ section parsers (agents/aplus_*_parser.py), the text field           *)
(* extractors (agents/text_parser.py, agents/base_parser.py), the metrics  *)
(* tracker (core/parsing_metrics.py), the web front end (web/app.py), the  *)
(* task store (core/database.py) and the validator (agents/validator.py).  *)
(*                                                                         *)
(* Each component has its own specification over the shared variables:     *)
(*   Spec         Coordinator.run_parsing, one task                        *)
(*   SpecStore    save_image_with_dedup called by the parsers of one task  *)
(*   SpecGrouper  the file naming loop of the A+ section parsers           *)
(*   SpecTitle    TextParserAgent._parse_title and the selector statistics *)
(*   SpecLocator  the section search of the A+ parsers, section absent     *)
(*   SpecSnapshot the text extractors run over one parsed DOM snapshot     *)
(*   SpecStart    the web front end's start_parsing requests               *)
(*   SpecRetry    Coordinator._run_with_retry, one invocation              *)
(*   SpecDb       Database.update_task called with a result summary        *)
(*   SpecValidator ValidatorAgent.validate called on one envelope          *)
(*   SpecPass     TextParserAgent.parse, one extraction pass               *)
(*   SpecOutdir   create_output_structure called by concurrent tasks       *)
(*   SpecHandles  the browser handles of concurrent tasks                  *)
(*   SpecCache    ParsingMetrics, the selector cache at its size limit     *)
(***************************************************************************)
EXTENDS Integers, Sequences, FiniteSets, TLC

VARIABLES
    \* ---- Coordinator.run_parsing (one task) ----
    pc,              \* position inside run_parsing
    config,          \* the task's toggles
    browser_pool,    \* self.browser_pool: "None" or "BrowserPool"
    driver,          \* BrowserPool._driver is not None
    close_calls,     \* number of BrowserPool.close_driver calls
    quit_calls,      \* number of driver.quit calls made by close_driver
    init_begun,      \* the 'Initializing browser...' step has been reached
    raised_at,       \* where the exception handled by the except block was raised
    propagated,      \* an exception left run_parsing
    status,          \* tasks.status of the task row
    error_message,   \* tasks.error_message is set
    dom_soup,        \* self.dom_soup is not None
    text_title,      \* results['text'].get('title'): "unset", "None" or "Title"
    images_set,      \* results['images'] was assigned by _run_image_agents
    images,          \* results['images'][category], when assigned
    reviews_summary, \* results['reviews'].get('summary'): "unset", "empty", "dict"
    reviews_n,       \* len(results['reviews'].get('reviews', []))
    errors,          \* results['errors']
    validation_set,  \* results['validation'] was assigned
    docx_calls,      \* number of DocxGenerator.generate calls
    failed,          \* categories whose parser raised on every attempt
    image_errors,    \* results['images']['errors'], by category
    steps_run,       \* the steps of run_parsing that were executed
    page_source_reads, \* number of browser_pool.get_page_source calls
    \* ---- the content store, one task's image acquisition ----
    stage,           \* the parser that is running (index into ParserOrder)
    file_counter,    \* per parser: the number its next file name takes
    md5_cache,       \* the set _run_image_agents shares among the image parsers
    review_cache,    \* ReviewsParserAgent.md5_cache
    files,           \* the output directory: path -> content
    net_requests,    \* number of requests.get calls
    last_call,       \* the latest save_image_with_dedup call
    prev_call,       \* the call before it
    \* ---- the A+ parsers' file naming, one section's image_items ----
    filename_prefix, \* 'A+', 'brand' or 'manufacturer'
    image_items,     \* the list: per image "standalone" or its carousel id
    item_idx,        \* position of the outer for loop
    group_counter,   \* file_counter of the naming loop
    processed_indices,
    save_calls,      \* per save_image_with_dedup call: item, file name, result
    \* ---- TextParserAgent._parse_title with the task's ParsingMetrics ----
    title_page,      \* per title selector: what a lookup of it finds
    selector_pos,    \* position of the selector loop
    title_value,     \* <<"unset">> while running, then the return value
    selector_stats,  \* ParsingMetrics.selector_stats
    live_lookups,    \* selectors looked up through the live driver
    title_soup,      \* the agent's self.dom_soup is not None
    snapshot_lookups, \* selectors looked up in the snapshot
    fallback_usage,  \* sum of ParsingMetrics.fallback_usage
    \* ---- the section search of the A+ parsers ----
    section_parser,  \* "brand", "manufacturer" or "product"
    heading,         \* what the h2 pre-check meets
    section_page,    \* per selector: what find_elements meets
    search_pc,       \* "precheck", "search" or "returned"
    search_idx,      \* idx of the selector loop (from 0)
    sections_found,
    selectors_tried, \* find_elements calls of the selector loop
    \* ---- the text extractors over the task's DOM snapshot ----
    captured,        \* the nodes of the snapshot when _save_dom_dump parsed it
    soup,            \* the nodes of self.dom_soup now
    extractor_runs,  \* per extractor run: extractor, document met, result
    \* ---- the web front end: start_parsing requests ----
    requests_handled, \* number of POST /start_parsing requests answered
    task_rows,       \* number of rows db.create_task has inserted
    workers_started, \* number of run_parsing_task threads started
    last_request,    \* the latest request and its answer
    \* ---- Coordinator._run_with_retry, one invocation ----
    retry_arg,       \* the max_retries argument; 0 stands for None and for 0
    retry_setting,   \* Settings.MAX_RETRIES
    attempt,         \* the loop variable
    call_log,        \* per call of the wrapped function: how it ended
    backoff,         \* the factors 2 ** attempt of the time.sleep calls
    retry_pc,        \* "loop" or "returned"
    retry_result,    \* what _run_with_retry returned
    \* ---- Database.update_task called with a result summary ----
    db_updates,      \* number of update_task(results=...) calls
    last_update,     \* the latest call: the summary and what was written
    \* ---- ValidatorAgent.validate called on one envelope ----
    envelope,        \* the results dict, by what the validator looks at
    validate_calls,  \* number of validate calls on the envelope
    fs_reads,        \* number of those calls that read the output directory
    last_fs,         \* the output directory at the latest call
    prev_report,     \* the report of the call before the latest
    last_report,     \* the report of the latest call
    \* ---- TextParserAgent.parse, one extraction pass ----
    field_page,      \* per field: what its extractor does on this page
    field_pos,       \* the next statement of the try block
    text_results,    \* results[field]: "default" or "value"
    text_errors,     \* len(results['errors'])
    pass_pc,         \* "try" or "returned"
    \* ---- create_output_structure called by concurrent tasks ----
    out_product,     \* per task: the product name passed in
    out_counter,     \* per task: the local counter
    out_pc,          \* per task: "check", "mkdir" or "returned"
    out_result,      \* per task: the directory returned, <<name, counter>>
    dirs,            \* the directories under Settings.OUTPUT_DIR
    \* ---- the browser handles of concurrent tasks ----
    pool_of,         \* per task: coordinator.browser_pool, a pool id or 0 (None)
    pool_driver,     \* per pool: BrowserPool._driver, a handle id or 0 (None)
    pools_made,      \* BrowserPool objects constructed so far
    handles_made,    \* uc.Chrome objects constructed so far
    handle_creator,  \* per handle: the task whose thread constructed it, or 0
    handle_users,    \* per handle: the tasks that called a method of it
    handle_releasers, \* per handle: the tasks that quit it
    driver_uses,     \* per task: get_driver calls made by its agents
    thread_pc,       \* per task: "start", "navigate", "parse", "finally", "ended"
    \* ---- ParsingMetrics, the selector cache at its size limit ----
    cache_max,       \* self.max_selector_cache_size
    cache_stats,     \* self.selector_stats: selector -> counts and last_used
    cache_order,     \* the keys of selector_stats in dict (insertion) order
    clock,           \* the latest value datetime.now() returned
    recency,         \* the tracked selectors, least recently recorded first
    evicted,         \* the selectors deleted by the latest call
    expected_lru,    \* the least recently recorded selectors at that trim
    record_calls     \* number of record_selector_success calls

taskVars == <<pc, config, browser_pool, driver, close_calls, quit_calls, init_begun,
              raised_at, propagated, status, error_message, dom_soup, text_title,
              images_set, images, reviews_summary, reviews_n, errors,
              validation_set, docx_calls, failed, image_errors, steps_run,
              page_source_reads>>

storeVars == <<stage, file_counter, md5_cache, review_cache, files, net_requests,
               last_call, prev_call>>

groupVars == <<filename_prefix, image_items, item_idx, group_counter,
               processed_indices, save_calls>>

titleVars == <<title_page, selector_pos, title_value, selector_stats, live_lookups,
               title_soup, snapshot_lookups, fallback_usage>>

searchVars == <<section_parser, heading, section_page, search_pc, search_idx,
                sections_found, selectors_tried>>

snapshotVars == <<captured, soup, extractor_runs>>

startVars == <<requests_handled, task_rows, workers_started, last_request>>

retryVars == <<retry_arg, retry_setting, attempt, call_log, backoff, retry_pc, retry_result>>

dbVars == <<db_updates, last_update>>

validatorVars == <<envelope, validate_calls, fs_reads, last_fs, prev_report, last_report>>

passVars == <<field_page, field_pos, text_results, text_errors, pass_pc>>

outdirVars == <<out_product, out_counter, out_pc, out_result, dirs>>

handlesVars == <<pool_of, pool_driver, pools_made, handles_made, handle_creator,
                 handle_users, handle_releasers, driver_uses, thread_pc>>

cacheVars == <<cache_max, cache_stats, cache_order, clock, recency, evicted,
               expected_lru, record_calls>>

vars == <<taskVars, storeVars, groupVars, titleVars, searchVars, snapshotVars,
         startVars, retryVars, dbVars, validatorVars, passVars, outdirVars,
         handlesVars, cacheVars>>

nonTaskVars == <<storeVars, groupVars, titleVars, searchVars, snapshotVars, startVars,
    retryVars, dbVars, validatorVars, passVars, outdirVars, handlesVars, cacheVars>>
nonStoreVars == <<taskVars, groupVars, titleVars, searchVars, snapshotVars, startVars,
    retryVars, dbVars, validatorVars, passVars, outdirVars, handlesVars, cacheVars>>
nonGroupVars == <<taskVars, storeVars, titleVars, searchVars, snapshotVars, startVars,
    retryVars, dbVars, validatorVars, passVars, outdirVars, handlesVars, cacheVars>>
nonTitleVars == <<taskVars, storeVars, groupVars, searchVars, snapshotVars, startVars,
    retryVars, dbVars, validatorVars, passVars, outdirVars, handlesVars, cacheVars>>
nonSearchVars == <<taskVars, storeVars, groupVars, titleVars, snapshotVars, startVars,
    retryVars, dbVars, validatorVars, passVars, outdirVars, handlesVars, cacheVars>>
nonSnapshotVars == <<taskVars, storeVars, groupVars, titleVars, searchVars, startVars,
    retryVars, dbVars, validatorVars, passVars, outdirVars, handlesVars, cacheVars>>
nonStartVars == <<taskVars, storeVars, groupVars, titleVars, searchVars, snapshotVars,
    retryVars, dbVars, validatorVars, passVars, outdirVars, handlesVars, cacheVars>>
nonRetryVars == <<taskVars, storeVars, groupVars, titleVars, searchVars, snapshotVars,
    startVars, dbVars, validatorVars, passVars, outdirVars, handlesVars, cacheVars>>
nonDbVars == <<taskVars, storeVars, groupVars, titleVars, searchVars, snapshotVars,
    startVars, retryVars, validatorVars, passVars, outdirVars, handlesVars, cacheVars>>
nonValidatorVars == <<taskVars, storeVars, groupVars, titleVars, searchVars,
    snapshotVars, startVars, retryVars, dbVars, passVars, outdirVars, handlesVars,
    cacheVars>>
nonPassVars == <<taskVars, storeVars, groupVars, titleVars, searchVars, snapshotVars,
    startVars, retryVars, dbVars, validatorVars, outdirVars, handlesVars, cacheVars>>
nonOutdirVars == <<taskVars, storeVars, groupVars, titleVars, searchVars, snapshotVars,
    startVars, retryVars, dbVars, validatorVars, passVars, handlesVars, cacheVars>>
nonHandlesVars == <<taskVars, storeVars, groupVars, titleVars, searchVars,
    snapshotVars, startVars, retryVars, dbVars, validatorVars, passVars, outdirVars,
    cacheVars>>
nonCacheVars == <<taskVars, storeVars, groupVars, titleVars, searchVars, snapshotVars,
    startVars, retryVars, dbVars, validatorVars, passVars, outdirVars, handlesVars>>

----------------------------------------------------------------------------
(* Bounds of the model *)

MaxImages == 2
MaxReviews == 1

----------------------------------------------------------------------------
(* Coordinator.run_parsing *)

ImageCategories == {"hero", "gallery", "aplus_product", "aplus_brand", "aplus_manufacturer"}

Toggles == ImageCategories \cup {"text", "reviews"}

\* any([config.get('images_hero'), ...])
need_images(cfg) == \E c \in ImageCategories : cfg[c]

\* start_parsing rejects a request whose toggles are all false
Configs == {cfg \in [Toggles -> BOOLEAN] : \E t \in Toggles : cfg[t]}

\* a category's entry of images_result: a list of saved paths, or the
\* {'errors': [...]} dict _run_with_retry returns when every attempt raised
PathList(n) == [kind |-> "list", n |-> n]
ErrorDict == [kind |-> "errdict", n |-> 0]

\* len(images_result[c])
PyLen(entry) == IF entry.kind = "errdict" THEN 1 ELSE entry.n

\* the image files an entry names
SavedFiles(entry) == IF entry.kind = "list" THEN entry.n ELSE 0

EmptyImages == [c \in ImageCategories |-> PathList(0)]

TaskInit ==
    /\ pc = "start"
    /\ config \in Configs
    /\ browser_pool = "None"
    /\ driver = FALSE
    /\ close_calls = 0
    /\ quit_calls = 0
    /\ init_begun = FALSE
    /\ raised_at = "none"
    /\ propagated = FALSE
    /\ status = "pending"
    /\ error_message = FALSE
    /\ dom_soup = FALSE
    /\ text_title = "unset"
    /\ images_set = FALSE
    /\ images = EmptyImages
    /\ reviews_summary = "unset"
    /\ reviews_n = 0
    /\ errors = <<>>
    /\ validation_set = FALSE
    /\ docx_calls = 0
    /\ failed = {}
    /\ image_errors = {}
    /\ steps_run = {}
    /\ page_source_reads = 0

\* an exception of the try block: control goes to the except block
Raise(where) ==
    /\ pc' = "except"
    /\ raised_at' = where

\* line 88: self.db.update_task(task_id, status='running')
UpdateRunning ==
    /\ pc = "start"
    /\ \/ /\ status' = "running"
          /\ pc' = "init"
          /\ UNCHANGED raised_at
       \/ /\ Raise("update_running")
          /\ UNCHANGED status
    /\ UNCHANGED nonTaskVars
    /\ UNCHANGED <<failed, image_errors, steps_run, page_source_reads>>
    /\ UNCHANGED <<config, browser_pool, driver, close_calls, quit_calls, init_begun,
                   propagated, error_message, dom_soup, text_title, images_set, images,
                   reviews_summary, reviews_n, errors, validation_set, docx_calls>>

\* lines 89-92: 'Initializing browser...', self.browser_pool = BrowserPool()
InitBrowser ==
    /\ pc = "init"
    /\ init_begun' = TRUE
    /\ browser_pool' = "BrowserPool"
    /\ pc' = "navigate"
    /\ UNCHANGED nonTaskVars
    /\ UNCHANGED <<failed, image_errors, steps_run, page_source_reads>>
    /\ UNCHANGED <<config, driver, close_calls, quit_calls, raised_at, propagated, status,
                   error_message, dom_soup, text_title, images_set, images,
                   reviews_summary, reviews_n, errors, validation_set, docx_calls>>

\* lines 104-106: navigate_to creates the driver (get_driver may raise) and
\* returns False on a timeout, which run_parsing turns into an exception
Navigate ==
    /\ pc = "navigate"
    /\ \/ /\ driver' = FALSE
          /\ Raise("get_driver")
       \/ /\ driver' = TRUE
          /\ Raise("navigate")
       \/ /\ driver' = TRUE
          /\ pc' = "snapshot"
          /\ UNCHANGED raised_at
    /\ UNCHANGED nonTaskVars
    /\ UNCHANGED <<failed, image_errors, steps_run, page_source_reads>>
    /\ UNCHANGED <<config, browser_pool, close_calls, quit_calls, init_begun, propagated,
                   status, error_message, dom_soup, text_title, images_set, images,
                   reviews_summary, reviews_n, errors, validation_set, docx_calls>>

\* lines 109-110, 284-363: _save_dom_dump catches every exception and leaves
\* dom_soup None when the driver cannot be had (line 287), when the page
\* source cannot be read (line 357) or when it cannot be parsed (line 358)
SaveDomDump ==
    /\ pc = "snapshot"
    /\ \/ /\ UNCHANGED page_source_reads
          /\ dom_soup' = FALSE
       \/ /\ page_source_reads' = page_source_reads + 1
          /\ dom_soup' \in BOOLEAN
    /\ steps_run' = steps_run \cup {"snapshot"}
    /\ pc' = "text"
    /\ UNCHANGED nonTaskVars
    /\ UNCHANGED <<failed, image_errors>>
    /\ UNCHANGED <<config, browser_pool, driver, close_calls, quit_calls, init_begun,
                   raised_at, propagated, status, error_message, text_title, images_set,
                   images, reviews_summary, reviews_n, errors, validation_set, docx_calls>>

\* a text step that asks the browser for the page source again
ParseTextRereadingSource ==
    /\ pc = "text"
    /\ IF config["text"]
       THEN /\ text_title' \in {"None", "Title"}
            /\ steps_run' = steps_run \cup {"text"}
            /\ page_source_reads' = page_source_reads + 1
       ELSE UNCHANGED <<text_title, steps_run, page_source_reads>>
    /\ pc' = "outdir"
    /\ UNCHANGED nonTaskVars
    /\ UNCHANGED <<failed, image_errors>>
    /\ UNCHANGED <<config, browser_pool, driver, close_calls, quit_calls, init_begun,
                   raised_at, propagated, status, error_message, dom_soup, images_set,
                   images, reviews_summary, reviews_n, errors, validation_set, docx_calls>>

\* lines 113-174: the text agent (its parse catches its own exceptions), or
\* the product name alone
ParseText ==
    /\ pc = "text"
    /\ IF config["text"]
       THEN /\ text_title' \in {"None", "Title"}
            /\ steps_run' = steps_run \cup {"text"}
       ELSE UNCHANGED <<text_title, steps_run>>
    /\ pc' = "outdir"
    /\ UNCHANGED nonTaskVars
    /\ UNCHANGED <<failed, image_errors, page_source_reads>>
    /\ UNCHANGED <<config, browser_pool, driver, close_calls, quit_calls, init_begun,
                   raised_at, propagated, status, error_message, dom_soup, images_set,
                   images, reviews_summary, reviews_n, errors, validation_set, docx_calls>>

\* lines 176-180: create_output_structure (mkdir may raise) and
\* db.update_task(product_name=...)
CreateOutput ==
    /\ pc = "outdir"
    /\ \/ /\ pc' = "images"
          /\ UNCHANGED raised_at
       \/ Raise("create_output_structure")
       \/ Raise("update_product_name")
    /\ UNCHANGED nonTaskVars
    /\ UNCHANGED <<failed, image_errors, steps_run, page_source_reads>>
    /\ UNCHANGED <<config, browser_pool, driver, close_calls, quit_calls, init_begun,
                   propagated, status, error_message, dom_soup, text_title, images_set,
                   images, reviews_summary, reviews_n, errors, validation_set, docx_calls>>

\* what _run_with_retry hands back to _run_image_agents for one enabled
\* category: the hero parser stops at its first saved file; the hero and the
\* gallery parser raise outside their try blocks, and _run_with_retry then
\* returns the error dict; the A+ parsers catch their own exceptions
CategoryOutcomes(c) ==
    CASE c = "hero" -> {PathList(n) : n \in 0..1} \cup {ErrorDict}
      [] c = "gallery" -> {PathList(n) : n \in 0..MaxImages} \cup {ErrorDict}
      [] OTHER -> {PathList(n) : n \in 0..MaxImages}

\* lines 498-522: what images_result holds for a category after its block.
\* The hero block unpacks the outcome into (hero_images, hero_url): the error
\* dict raises ValueError there and images_result['hero'] stays []; the
\* gallery block stores the outcome as it is
StoredEntry(c, outcome) ==
    IF c = "hero" /\ outcome = ErrorDict THEN PathList(0) ELSE outcome

\* lines 506-508: the categories whose except block appended to
\* images_result['errors']
BlockErrors(out) == {c \in {"hero"} : out[c] = ErrorDict}

\* lines 481-596: _run_image_agents.  images_result has no
\* 'aplus_manufacturer' key unless that category ran, and the total (lines
\* 587-593) reads it.
ManufacturerKeySet(cfg) == cfg["aplus_manufacturer"]

\* lines 186-199
RunImageAgents ==
    /\ pc = "images"
    /\ IF need_images(config)
       THEN \E out \in [ImageCategories -> UNION {CategoryOutcomes(c) : c \in ImageCategories}] :
               /\ \A c \in ImageCategories :
                     out[c] \in (IF config[c] THEN CategoryOutcomes(c) ELSE {PathList(0)})
               /\ failed' = failed \cup {c \in ImageCategories : out[c] = ErrorDict}
               /\ IF ManufacturerKeySet(config)
                  THEN /\ images' = [c \in ImageCategories |-> StoredEntry(c, out[c])]
                       /\ image_errors' = BlockErrors(out)
                       /\ images_set' = TRUE
                       /\ UNCHANGED errors
                  ELSE \* KeyError: 'aplus_manufacturer', caught at line 196
                       /\ errors' = Append(errors, "Image parsing")
                       /\ UNCHANGED <<images, images_set, image_errors>>
               /\ steps_run' = steps_run \cup {"images"}
       ELSE UNCHANGED <<images, images_set, errors, failed, image_errors, steps_run>>
    /\ pc' = "reviews"
    /\ UNCHANGED nonTaskVars
    /\ UNCHANGED page_source_reads
    /\ UNCHANGED <<config, browser_pool, driver, close_calls, quit_calls, init_begun,
                   raised_at, propagated, status, error_message, dom_soup, text_title,
                   reviews_summary, reviews_n, validation_set, docx_calls>>

\* lines 202-205, 598-616: ReviewsParserAgent.parse catches its own
\* exceptions; the summary stays {} only when parse_reviews_summary raised
RunReviews ==
    /\ pc = "reviews"
    /\ IF config["reviews"]
       THEN /\ \/ /\ reviews_summary' = "empty"
                  /\ reviews_n' = 0
                  /\ failed' = failed \cup {"reviews"}
               \/ /\ reviews_summary' = "dict"
                  /\ reviews_n' \in 0..MaxReviews
                  /\ UNCHANGED failed
            /\ steps_run' = steps_run \cup {"reviews"}
       ELSE UNCHANGED <<reviews_summary, reviews_n, failed, steps_run>>
    /\ pc' = "validate"
    /\ UNCHANGED nonTaskVars
    /\ UNCHANGED <<image_errors, page_source_reads>>
    /\ UNCHANGED <<config, browser_pool, driver, close_calls, quit_calls, init_begun,
                   raised_at, propagated, status, error_message, dom_soup, text_title,
                   images_set, images, errors, validation_set, docx_calls>>

\* ValidatorAgent.validate(self, results, output_dir=None) takes no
\* keyword 'config'
ValidateAcceptsConfig == FALSE

\* lines 208-211, 646-649: _run_validation calls
\* agent.validate(self.results, self.output_dir, config=config)
RunValidation ==
    /\ pc = "validate"
    /\ IF config["reviews"] \/ config["text"]
       THEN /\ IF ValidateAcceptsConfig
               THEN /\ validation_set' = TRUE
                    /\ pc' = "docx"
                    /\ UNCHANGED raised_at
               ELSE /\ Raise("validate")
                    /\ UNCHANGED validation_set
            /\ steps_run' = steps_run \cup {"validation"}
       ELSE /\ pc' = "docx"
            /\ UNCHANGED <<validation_set, raised_at, steps_run>>
    /\ UNCHANGED nonTaskVars
    /\ UNCHANGED <<failed, image_errors, page_source_reads>>
    /\ UNCHANGED <<config, browser_pool, driver, close_calls, quit_calls, init_begun,
                   propagated, status, error_message, dom_soup, text_title, images_set,
                   images, reviews_summary, reviews_n, errors, docx_calls>>

\* lines 221-227
has_any_images ==
    /\ images_set
    /\ \E c \in ImageCategories : PyLen(images[c]) > 0

\* line 228
has_text == text_title = "Title"

\* line 229
has_reviews == reviews_summary = "dict" \/ reviews_n > 0

\* line 231
ShouldGenerateDocx == (need_images(config) /\ has_any_images) \/ has_text \/ has_reviews

\* lines 213-233, 651-684: _generate_docx catches the generator's exceptions
GenerateDocx ==
    /\ pc = "docx"
    /\ IF ShouldGenerateDocx
       THEN /\ docx_calls' = docx_calls + 1
            /\ \/ UNCHANGED errors
               \/ errors' = Append(errors, "DOCX generation failed")
       ELSE UNCHANGED <<docx_calls, errors>>
    /\ steps_run' = steps_run \cup {"report decision"}
    /\ pc' = "complete"
    /\ UNCHANGED nonTaskVars
    /\ UNCHANGED <<failed, image_errors, page_source_reads>>
    /\ UNCHANGED <<config, browser_pool, driver, close_calls, quit_calls, init_begun,
                   raised_at, propagated, status, error_message, dom_soup, text_title,
                   images_set, images, reviews_summary, reviews_n, validation_set>>

\* lines 235-263: db.update_task(status='completed', results=...)
CompleteTask ==
    /\ pc = "complete"
    /\ \/ /\ status' = "completed"
          /\ pc' = "finally"
          /\ UNCHANGED raised_at
       \/ /\ Raise("update_completed")
          /\ UNCHANGED status
    /\ UNCHANGED nonTaskVars
    /\ UNCHANGED <<failed, image_errors, steps_run, page_source_reads>>
    /\ UNCHANGED <<config, browser_pool, driver, close_calls, quit_calls, init_begun,
                   propagated, error_message, dom_soup, text_title, images_set, images,
                   reviews_summary, reviews_n, errors, validation_set, docx_calls>>

\* str(e) of the exception raised at each place
str_e(where) ==
    CASE where \in {"update_running", "update_product_name", "update_completed"} ->
             "database is locked"
      [] where = "get_driver" -> "Message: session not created"
      [] where = "navigate" -> "Failed to load product page"
      [] where = "create_output_structure" -> "[Errno 13] Permission denied"
      [] where = "validate" ->
             "validate() got an unexpected keyword argument 'config'"
      [] OTHER -> ""

\* Database.update_task: `if error_message:` adds the column to the UPDATE
StoresMessage(message) == message /= ""

\* mutation: the except block updates the status alone
ExceptHandlerStatusOnly ==
    /\ pc = "except"
    /\ errors' = Append(errors, raised_at)
    /\ \/ /\ status' = "failed"
          /\ UNCHANGED <<error_message, propagated>>
       \/ /\ propagated' = TRUE
          /\ UNCHANGED <<status, error_message>>
    /\ pc' = "finally"
    /\ UNCHANGED nonTaskVars
    /\ UNCHANGED <<failed, image_errors, steps_run, page_source_reads>>
    /\ UNCHANGED <<config, browser_pool, driver, close_calls, quit_calls, init_begun,
                   raised_at, dom_soup, text_title, images_set, images, reviews_summary,
                   reviews_n, validation_set, docx_calls>>

\* lines 265-269: the except block; its own update_task may raise, and then
\* the exception leaves run_parsing after the finally block
ExceptHandler ==
    /\ pc = "except"
    /\ errors' = Append(errors, raised_at)
    /\ \/ /\ status' = "failed"
          /\ error_message' = (error_message \/ StoresMessage(str_e(raised_at)))
          /\ UNCHANGED propagated
       \/ /\ propagated' = TRUE
          /\ UNCHANGED <<status, error_message>>
    /\ pc' = "finally"
    /\ UNCHANGED nonTaskVars
    /\ UNCHANGED <<failed, image_errors, steps_run, page_source_reads>>
    /\ UNCHANGED <<config, browser_pool, driver, close_calls, quit_calls, init_begun,
                   raised_at, dom_soup, text_title, images_set, images, reviews_summary,
                   reviews_n, validation_set, docx_calls>>

\* BrowserPool.close_driver, lines 194-211: quits the driver if there is one
CloseDriver ==
    /\ close_calls' = close_calls + 1
    /\ quit_calls' = IF driver THEN quit_calls + 1 ELSE quit_calls
    /\ driver' = FALSE

\* the release written as the last statement of the try block instead of in
\* a finally block: it is skipped when an exception was raised
FinallyOnSuccessOnly ==
    /\ pc = "finally"
    /\ IF browser_pool /= "None" /\ raised_at = "none"
       THEN CloseDriver
       ELSE UNCHANGED <<close_calls, quit_calls, driver>>
    /\ pc' = IF propagated THEN "propagated" ELSE "returned"
    /\ UNCHANGED nonTaskVars
    /\ UNCHANGED <<failed, image_errors, steps_run, page_source_reads>>
    /\ UNCHANGED <<config, browser_pool, init_begun, raised_at, propagated, status,
                   error_message, dom_soup, text_title, images_set, images,
                   reviews_summary, reviews_n, errors, validation_set, docx_calls>>

\* lines 271-276: finally: if self.browser_pool: self.browser_pool.close_driver()
Finally ==
    /\ pc = "finally"
    /\ IF browser_pool /= "None"
       THEN CloseDriver
       ELSE UNCHANGED <<close_calls, quit_calls, driver>>
    /\ pc' = IF propagated THEN "propagated" ELSE "returned"
    /\ UNCHANGED nonTaskVars
    /\ UNCHANGED <<failed, image_errors, steps_run, page_source_reads>>
    /\ UNCHANGED <<config, browser_pool, init_begun, raised_at, propagated, status,
                   error_message, dom_soup, text_title, images_set, images,
                   reviews_summary, reviews_n, errors, validation_set, docx_calls>>

\* web/app.py, run_parsing_task lines 48-50: the exception that left
\* run_parsing is handled by db.update_task(status='failed',
\* error_message=str(e)); when that call raises too the thread ends with the
\* row as it was
RunParsingTaskHandler ==
    /\ pc = "propagated"
    /\ \/ /\ status' = "failed"
          /\ error_message' = (error_message \/ StoresMessage(str_e("update_completed")))
          /\ pc' = "thread_ended"
       \/ /\ pc' = "thread_died"
          /\ UNCHANGED <<status, error_message>>
    /\ UNCHANGED nonTaskVars
    /\ UNCHANGED <<failed, image_errors, steps_run, page_source_reads>>
    /\ UNCHANGED <<config, browser_pool, driver, close_calls, quit_calls, init_begun,
                   raised_at, propagated, dom_soup, text_title, images_set, images,
                   reviews_summary, reviews_n, errors, validation_set, docx_calls>>

TaskNext ==
    \/ UpdateRunning
    \/ InitBrowser
    \/ Navigate
    \/ SaveDomDump
    \/ ParseText
    \/ CreateOutput
    \/ RunImageAgents
    \/ RunReviews
    \/ RunValidation
    \/ GenerateDocx
    \/ CompleteTask
    \/ ExceptHandler
    \/ Finally
    \/ RunParsingTaskHandler

----------------------------------------------------------------------------
(* Properties of Coordinator.run_parsing *)

TaskEnded == pc \in {"returned", "propagated"}

\* C1: a fatal exception raised at any point after the Initializing step has
\* begun results in exactly one close_driver call for the task: never more
\* than one call is made, and when run_parsing has ended after such an
\* exception exactly one call was made, wherever the exception was raised.
C1_ReleaseExactlyOnce ==
    /\ close_calls <= 1
    /\ (TaskEnded /\ init_begun /\ raised_at /= "none") => close_calls = 1

\* C1 witness: run_parsing ended by the exception of the validation step, which
\* also escaped the except block, and the handle was released once
C1_Witness ==
    /\ pc = "propagated"
    /\ raised_at = "validate"
    /\ init_begun
    /\ close_calls = 1

\* the image files the envelope names
SavedImageCount(c) == IF images_set THEN SavedFiles(images[c]) ELSE 0

\* C10: the report generator is invoked only if the envelope holds a
\* non-empty title, at least one saved image file, or at least one review.
C10_ReportOnlyForNonEmptyEnvelope ==
    docx_calls > 0 =>
        \/ text_title = "Title"
        \/ \E c \in ImageCategories : SavedImageCount(c) > 0
        \/ reviews_n > 0

\* an entry somewhere in the envelope tells that category c failed: its tag in
\* results['images']['errors'], the error dict stored as its path list, or
\* the reviews result's own 'errors' (set whenever its summary stayed {})
FailureRecorded(c) ==
    \/ images_set /\ c \in image_errors
    \/ images_set /\ c \in ImageCategories /\ images[c] = ErrorDict
    \/ c = "reviews" /\ reviews_summary = "empty"

\* no exception other than the validation step's own was raised
NoResourceFailure == raised_at \in {"none", "validate"} /\ ~propagated

\* C12: when an enabled extraction category failed entirely while navigation
\* and snapshot capture succeeded (and no resource failed afterwards), the
\* failure is recorded in the envelope, the remaining steps ran as far as the
\* report decision, and the task ended with status completed.
C12_PartialFailureCompletes ==
    (TaskEnded /\ failed /= {} /\ dom_soup /\ NoResourceFailure) =>
        /\ \A c \in failed : FailureRecorded(c)
        /\ "report decision" \in steps_run
        /\ status = "completed"

\* the snapshot step is over and left self.dom_soup None
SnapshotFailed == "snapshot" \in steps_run /\ ~dom_soup

ExtractorSteps == {"text", "images", "reviews"}

\* C13: if snapshot capture fails the task is aborted: no extractor runs
\* afterwards, and when run_parsing has ended the task status is failed and
\* the browser handle was released.
C13_SnapshotFailureAborts ==
    SnapshotFailed =>
        /\ steps_run \cap ExtractorSteps = {}
        /\ TaskEnded => (status = "failed" /\ close_calls = 1)

\* C14: validation is advisory: once the validation step has run, whatever
\* it returned and however it failed, run_parsing does not end before the
\* report decision was taken, and it is never the validation step that sends
\* the task to the except block.
C14_ValidationIsAdvisory ==
    /\ raised_at /= "validate"
    /\ (TaskEnded /\ "validation" \in steps_run) => "report decision" \in steps_run

\* results['errors'] holds the entry run_parsing appends at line 198
ImageStageErrorRecorded == \E i \in 1..Len(errors) : errors[i] = "Image parsing"

\* C15: for every toggle combination with at least one image category
\* enabled, after the image stage the envelope has its image section (the
\* path lists of the categories and their total), and no error was recorded
\* by the stage, whichever image categories are disabled.
C15_ImageSectionForEveryCombination ==
    "images" \in steps_run =>
        /\ images_set
        /\ ~ImageStageErrorRecorded

\* C20: in every task at most one DOM snapshot is taken: a step reads the
\* page source or assigns self.dom_soup only as the snapshot step, when
\* nothing was read yet and no extractor has run; afterwards no step reads
\* the page source again or replaces the snapshot.
C20_OneSnapshotBeforeExtraction ==
    [][(page_source_reads' /= page_source_reads \/ dom_soup' /= dom_soup) =>
           /\ pc = "snapshot"
           /\ page_source_reads = 0
           /\ page_source_reads' <= 1
           /\ steps_run \cap (ExtractorSteps \cup {"snapshot"}) = {}]_vars

\* C20 witness: the task ended after the snapshot was taken from one read of
\* the page source and all three extractors ran on it
C20_Witness ==
    /\ pc = "returned"
    /\ page_source_reads = 1
    /\ dom_soup
    /\ ExtractorSteps \subseteq steps_run

\* the thread of the task has nothing left to do
TaskOver == pc \in {"returned", "thread_ended", "thread_died"}

\* the status changes the lifecycle pending -> running -> completed or failed has
Lifecycle ==
    {<<"pending", "running">>, <<"running", "completed">>, <<"running", "failed">>}

\* C27 as stated: the stored status moves pending -> running -> exactly one
\* of completed or failed, never changes once it is completed or failed, and
\* is failed exactly when the run ended by an exception reaching the handler,
\* with a non-empty error message stored.
C27_StatusLifecycle ==
    [][/\ status' /= status => <<status, status'>> \in Lifecycle
       /\ TaskOver' => status' \in {"completed", "failed"}
       /\ TaskOver' => (status' = "failed" <=> raised_at' /= "none")
       /\ status' = "failed" => error_message']_vars

\* C27 amended: the stored status moves pending -> running -> completed or
\* failed, or pending -> failed when the update to running itself raised; it
\* never changes once it is completed or failed; whenever it is failed an
\* exception reached the handler and a non-empty error message is stored,
\* and it is completed only if none did; and unless both the update_task of
\* the except block and the one of run_parsing_task raised, at the end it is
\* exactly one of completed or failed, failed exactly when an exception
\* reached the handler.
C27_StatusLifecycleWhenStored ==
    [][/\ status' /= status =>
              <<status, status'>> \in Lifecycle \cup {<<"pending", "failed">>}
       /\ (status = "pending" /\ status' = "failed") => raised_at' = "update_running"
       /\ status' = "completed" => raised_at' = "none"
       /\ status' = "failed" => (raised_at' /= "none" /\ error_message')
       /\ (TaskOver' /\ pc' /= "thread_died") =>
              /\ status' \in {"completed", "failed"}
              /\ status' = "failed" <=> raised_at' /= "none"]_vars

\* C27 witness: the task went to running, the output directory could not be
\* made, the except block stored failed with the message, and run_parsing
\* returned
C27_Witness ==
    /\ pc = "returned"
    /\ raised_at = "create_output_structure"
    /\ status = "failed"
    /\ error_message
    /\ ~propagated

\* the task is not running: the state the other specifications keep it in
TaskIdle == TaskInit /\ \A t \in Toggles : config[t]

(***************************************************************************)
(* The content store: utils/file_utils.py and its callers *)
(***************************************************************************)
\* bound: save_image_with_dedup calls in one task
MaxCalls == 3

\* the parsers that save files, in the order run_parsing runs them
ParserOrder == <<"hero", "gallery", "aplus_brand", "reviews">>

EXCLUDED_URL_PATTERNS ==
    {"360", "video", "play-button", "sprite", "icon", "logo", "badge",
     "transparent", "grey-pixel", "blank", "loading", "spinner", "/sash/", ".svg"}

\* a URL is a sequence of segments; str.lower() on one segment
Lower(seg) ==
    CASE seg = "SPRITE" -> "sprite"
      [] seg = "Video"  -> "video"
      [] seg = "I"      -> "i"
      [] OTHER          -> seg

Urls ==
    { <<"images/", "I", "/71abc", ".jpg">>,
      <<"images/", "G", "/nav-", "SPRITE", ".png">>,
      <<"images/", "I", "/51xyz-", "video", "-thumb.jpg">> }

is_excluded_url(url) ==
    \E i \in 1..Len(url) : Lower(url[i]) \in EXCLUDED_URL_PATTERNS

\* byte payloads a download can deliver, each with the properties the
\* checks of save_image_with_dedup read from its bytes
Payloads == {"jpegA", "jpegB", "tiny_png", "truncated_jpeg", "html_page", "bmp"}

\* the payload starts with a JPEG, PNG, WebP or GIF magic number
is_image(data) == data \in {"jpegA", "jpegB", "tiny_png", "truncated_jpeg"}

\* the leading bytes hold "<", "<!DOCTYPE" or "<html"
looks_like_html(data) == data = "html_page"

\* Image.open(...).size against min_size, or the exception of a failed decode
ImageOpen(data) ==
    CASE data \in {"jpegA", "jpegB", "bmp"} -> "at_least_min"
      [] data = "tiny_png"                  -> "below_min"
      [] OTHER                              -> "error"

calculate_md5(data) == <<"md5", data>>

\* download_image: None, or the bytes
DownloadOutcomes == {"None"} \cup Payloads

\* the save step: written; mkdir or open raises (no file made or changed);
\* f.write raises after open(..., 'wb') has created or truncated the file
WriteOutcomes == {"ok", "open_error", "write_error"}

NoWrite(requested, md5_cache_in) ==
    [ret |-> FALSE, requested |-> requested, wrote |-> "none", cache |-> md5_cache_in]

\* mutation: the hash is not added after the write
save_without_cache_add(url, data, cache, wr) ==
    IF is_excluded_url(url) \/ data = "None" THEN NoWrite(~is_excluded_url(url), cache)
    ELSE IF calculate_md5(data) \in cache \/ ImageOpen(data) /= "at_least_min"
              \/ (~is_image(data) /\ looks_like_html(data))
         THEN NoWrite(TRUE, cache)
    ELSE [ret |-> wr = "ok", requested |-> TRUE,
          wrote |-> IF wr = "ok" THEN "complete" ELSE "none", cache |-> cache]

\* mutation: the download is made before the exclusion check
save_download_first(url, data, cache, wr) ==
    IF is_excluded_url(url) \/ data = "None" THEN NoWrite(TRUE, cache)
    ELSE IF calculate_md5(data) \in cache \/ ImageOpen(data) /= "at_least_min"
              \/ (~is_image(data) /\ looks_like_html(data))
         THEN NoWrite(TRUE, cache)
    ELSE [ret |-> wr = "ok", requested |-> TRUE,
          wrote |-> IF wr = "ok" THEN "complete" ELSE "none",
          cache |-> IF wr = "ok" THEN cache \cup {calculate_md5(data)} ELSE cache]

\* save_image_with_dedup(url, output_path, md5_cache), with the outcome of
\* the download and of the write as inputs; the result holds the return
\* value, whether requests.get was called, what happened to output_path and
\* the hash set after the call
save_image_with_dedup(url, data, cache, wr) ==
    IF is_excluded_url(url) THEN NoWrite(FALSE, cache)
    ELSE IF data = "None" THEN NoWrite(TRUE, cache)
    ELSE IF ~is_image(data) /\ looks_like_html(data) THEN NoWrite(TRUE, cache)
    ELSE IF calculate_md5(data) \in cache THEN NoWrite(TRUE, cache)
    ELSE IF ImageOpen(data) /= "at_least_min" THEN NoWrite(TRUE, cache)
    ELSE IF wr = "ok"
         THEN [ret |-> TRUE, requested |-> TRUE, wrote |-> "complete",
               cache |-> cache \cup {calculate_md5(data)}]
    ELSE IF wr = "write_error"
         THEN [ret |-> FALSE, requested |-> TRUE, wrote |-> "partial", cache |-> cache]
    ELSE NoWrite(TRUE, cache)

\* output paths: (parser directory, number in the file name)
Paths == {"hero", "gallery", "aplus_brand", "reviews"} \X (1..(MaxCalls + 1))

NoCall ==
    [n |-> 0, parser |-> "none", cache |-> "none", url |-> <<>>, got |-> "None",
     path |-> <<"none", 0>>, ret |-> FALSE, requested |-> FALSE, wrote |-> "none",
     before |-> {}, after |-> {}]

StoreInit ==
    /\ stage = 1
    /\ file_counter = [p \in {"hero", "gallery", "aplus_brand", "reviews"} |-> 1]
    /\ md5_cache = {}
    /\ review_cache = {}
    /\ files = [p \in Paths |-> "absent"]
    /\ net_requests = 0
    /\ last_call = NoCall
    /\ prev_call = NoCall

\* the hash set a parser passes: the image parsers share the set made in
\* _run_image_agents, ReviewsParserAgent passes the set of its own __init__
CacheName(p) == IF p = "reviews" THEN "review_cache" ELSE "md5_cache"
CacheOf(p) == IF p = "reviews" THEN review_cache ELSE md5_cache

\* one save_image_with_dedup call by parser p for the file numbered
\* file_counter[p]; count_always: the number advances whatever the call
\* returns (enumerate), otherwise only when the call returns True
ParserSaves(p, count_always, stop_on_success) ==
    /\ stage <= Len(ParserOrder)
    /\ ParserOrder[stage] = p
    /\ last_call.n < MaxCalls
    /\ \E url \in Urls, data \in DownloadOutcomes, wr \in WriteOutcomes :
        LET path == <<p, file_counter[p]>>
            r    == save_image_with_dedup(url, data, CacheOf(p), wr)
        IN  /\ md5_cache' = IF p = "reviews" THEN md5_cache ELSE r.cache
            /\ review_cache' = IF p = "reviews" THEN r.cache ELSE review_cache
            /\ files' = CASE r.wrote = "complete" -> [files EXCEPT ![path] = data]
                          [] r.wrote = "partial"  -> [files EXCEPT ![path] = "partial"]
                          [] OTHER                -> files
            /\ net_requests' = net_requests + (IF r.requested THEN 1 ELSE 0)
            /\ file_counter' =
                   [file_counter EXCEPT
                       ![p] = IF count_always \/ (r.ret /\ ~stop_on_success) THEN @ + 1 ELSE @]
            /\ stage' = IF stop_on_success /\ r.ret THEN stage + 1 ELSE stage
            /\ prev_call' = last_call
            /\ last_call' =
                   [n |-> last_call.n + 1, parser |-> p, cache |-> CacheName(p),
                    url |-> url, got |-> IF r.requested THEN data ELSE "None",
                    path |-> path, ret |-> r.ret, requested |-> r.requested,
                    wrote |-> r.wrote, before |-> CacheOf(p), after |-> r.cache]
    /\ UNCHANGED nonStoreVars

\* HeroParser.parse: hero/hero.jpg, the selector loop ends at the first save
SaveHero == ParserSaves("hero", FALSE, TRUE)

\* GalleryParser.parse: product{i}.jpg for the i-th URL
SaveGallery == ParserSaves("gallery", TRUE, FALSE)

\* APlusBrandParser.parse, a standalone image: brand{file_counter}.jpg
SaveAPlusBrand == ParserSaves("aplus_brand", FALSE, FALSE)

\* ReviewsParserAgent.parse_review_images: review{i + 1}.jpg
SaveReviewImage == ParserSaves("reviews", TRUE, FALSE)

\* APlusBrandParser.parse: the body of a section raises after some of its
\* images were handled (download_image lets everything but a
\* requests.RequestException through), `except Exception: continue` goes on
\* to the next section, whose naming loop starts with file_counter = 1
SectionRaises ==
    /\ stage <= Len(ParserOrder)
    /\ ParserOrder[stage] = "aplus_brand"
    /\ file_counter' = [file_counter EXCEPT !["aplus_brand"] = 1]
    /\ UNCHANGED <<stage, md5_cache, review_cache, files, net_requests,
                   last_call, prev_call>>
    /\ UNCHANGED nonStoreVars

\* the running parser returns and run_parsing goes on to the next one
NextParser ==
    /\ stage <= Len(ParserOrder)
    /\ stage' = stage + 1
    /\ UNCHANGED <<file_counter, md5_cache, review_cache, files, net_requests,
                   last_call, prev_call>>
    /\ UNCHANGED nonStoreVars

StoreNext ==
    \/ SaveHero
    \/ SaveGallery
    \/ SaveAPlusBrand
    \/ SaveReviewImage
    \/ SectionRaises
    \/ NextParser

(***************************************************************************)
(* Properties of the content store *)
(***************************************************************************)
\* the store accepts the payload: not HTML, decodable, at least min_size
Acceptable(data) ==
    /\ data \in Payloads
    /\ ~(~is_image(data) /\ looks_like_html(data))
    /\ ImageOpen(data) = "at_least_min"

\* the last two calls downloaded the same payload and used the same hash set
TwoCallsSamePayload ==
    /\ prev_call.n > 0
    /\ prev_call.cache = last_call.cache
    /\ prev_call.got \in Payloads
    /\ prev_call.got = last_call.got

\* complete files among the paths the last two calls wrote to
SavedByLastTwo ==
    {c \in {prev_call, last_call} : c.wrote = "complete"}

\* C2 as stated: for every payload B, of two calls with the same B and the
\* same hash set the first returns true and inserts the hash, the second
\* returns false and writes no file, so exactly one file is saved.
C2_AnyPayloadSavedOnce ==
    TwoCallsSamePayload =>
        /\ prev_call.ret /\ calculate_md5(prev_call.got) \in prev_call.after
        /\ ~last_call.ret /\ last_call.wrote = "none"
        /\ Cardinality(SavedByLastTwo) = 1

\* C2 amended: for every payload B the store accepts whose hash is not yet
\* in the set and whose first write succeeds, the first call returns true and
\* inserts the hash, the second returns false and writes no file, and exactly
\* one of the two calls saved a file, which holds B.
C2_AcceptedPayloadSavedOnce ==
    (/\ TwoCallsSamePayload
     /\ Acceptable(prev_call.got)
     /\ calculate_md5(prev_call.got) \notin prev_call.before
     /\ prev_call.wrote = "complete") =>
        /\ prev_call.ret /\ calculate_md5(prev_call.got) \in prev_call.after
        /\ ~last_call.ret /\ last_call.wrote = "none"
        /\ last_call.after = last_call.before
        /\ Cardinality(SavedByLastTwo) = 1
        /\ files[prev_call.path] = prev_call.got

C2_Witness ==
    /\ TwoCallsSamePayload
    /\ prev_call.got = "jpegA"
    /\ prev_call.ret
    /\ ~last_call.ret
    /\ prev_call.parser = "gallery" /\ last_call.parser = "gallery"

\* saved files: paths that hold a complete payload
SavedPaths == {p \in Paths : files[p] \in Payloads}

\* C3: no two saved image files of one task have the same content hash,
\* whichever parsers saved them.
C3_NoTwoFilesShareHash ==
    \A p1, p2 \in SavedPaths :
        calculate_md5(files[p1]) = calculate_md5(files[p2]) => p1 = p2

\* C4: for a URL that matches an exclusion pattern the call returns false
\* and makes no network request.
C4_ExcludedUrlNoRequest ==
    (last_call.n > 0 /\ is_excluded_url(last_call.url)) =>
        /\ ~last_call.ret
        /\ ~last_call.requested
        /\ last_call.wrote = "none"
        /\ net_requests < last_call.n

C4_Witness ==
    /\ last_call.n > 1
    /\ is_excluded_url(last_call.url)
    /\ last_call.url[4] = "SPRITE"
    /\ prev_call.ret

\* C5: a call that fails returns false, leaves no complete or partial file
\* at its output path and leaves the hash set unchanged.
C5_FailureLeavesNothing ==
    (last_call.n > 0 /\ ~last_call.ret) =>
        /\ last_call.wrote = "none"
        /\ last_call.after = last_call.before

\* C26: no file is saved unless the first bytes of the downloaded payload
\* match the magic number of a recognized image format.
C26_SavedOnlyWithKnownMagic ==
    (last_call.n > 0 /\ last_call.wrote = "complete") => is_image(last_call.got)

\* C25: within one task no two successful saves are written to the same
\* output path: a call that saves a file never writes to a path that already
\* holds a file saved earlier, also when a section failed part-way and
\* another section is processed after it.
C25_SavedFileNeverOverwritten ==
    [][(last_call'.n /= last_call.n /\ last_call'.wrote = "complete")
           => files[last_call'.path] \notin Payloads]_vars

(***************************************************************************)
(* The file naming loop of the A+ section parsers *)
(***************************************************************************)
\* bound: images of one section
MaxItems == 5

\* _get_carousel_id of a carousel image; "standalone" when is_carousel is False
ItemKinds == {"standalone", "carouselA", "carouselB"}

Prefixes == {"A+", "brand", "manufacturer"}

ItemLists == UNION {[1..n -> ItemKinds] : n \in 1..MaxItems}

\* f'{filename_prefix}{file_counter}.jpg'
StandaloneName(prefix, n) == <<prefix, n, ".jpg">>

\* f'{filename_prefix}{base_number}.{carousel_idx}(CAROUSEL).jpg'
CarouselName(prefix, n, k) == <<prefix, n, ".", k, "(CAROUSEL).jpg">>

\* mutation: every later image of the same carousel joins the group
SameCarouselAnywhere(items, idx) ==
    {j \in idx..Len(items) : items[j] = items[idx]}

\* the look-ahead loop: the item at idx and the images right after it that
\* are carousel images with the same carousel id; it stops at the first
\* image that is standalone or of another carousel
ConsecutiveSameCarousel(items, idx) ==
    {j \in idx..Len(items) : \A m \in idx..j : items[m] = items[idx]}

\* the indices of a set in ascending order
RECURSIVE Ascending(_)
Ascending(S) ==
    IF S = {} THEN <<>>
    ELSE LET lo == CHOOSE x \in S : \A y \in S : x <= y
         IN  <<lo>> \o Ascending(S \ {lo})

GroupInit ==
    /\ filename_prefix \in Prefixes
    /\ image_items \in ItemLists
    /\ item_idx = 1
    /\ group_counter = 1
    /\ processed_indices = {}
    /\ save_calls = <<>>

\* no naming loop is running
GroupIdle ==
    /\ filename_prefix = "A+"
    /\ image_items = <<>>
    /\ item_idx = 1
    /\ group_counter = 1
    /\ processed_indices = {}
    /\ save_calls = <<>>

\* the item was saved with an earlier carousel: continue
SkipProcessed ==
    /\ item_idx <= Len(image_items)
    /\ item_idx \in processed_indices
    /\ item_idx' = item_idx + 1
    /\ UNCHANGED <<filename_prefix, image_items, group_counter, processed_indices,
                   save_calls>>
    /\ UNCHANGED nonGroupVars

\* a carousel image: collect the group, save its members under one number
SaveCarousel ==
    /\ item_idx <= Len(image_items)
    /\ item_idx \notin processed_indices
    /\ image_items[item_idx] /= "standalone"
    /\ LET members == Ascending(ConsecutiveSameCarousel(image_items, item_idx))
       IN  /\ processed_indices' =
                  processed_indices \cup ({members[k] : k \in 1..Len(members)} \ {item_idx})
           /\ \E saved \in [1..Len(members) -> BOOLEAN] :
                  save_calls' = save_calls \o
                      [k \in 1..Len(members) |->
                          [item |-> members[k],
                           name |-> CarouselName(filename_prefix, group_counter, k),
                           saved |-> saved[k]]]
    /\ group_counter' = group_counter + 1
    /\ item_idx' = item_idx + 1
    /\ UNCHANGED <<filename_prefix, image_items>>
    /\ UNCHANGED nonGroupVars

\* a regular image: the number advances only when the save returns True
SaveStandalone ==
    /\ item_idx <= Len(image_items)
    /\ item_idx \notin processed_indices
    /\ image_items[item_idx] = "standalone"
    /\ \E saved \in BOOLEAN :
        /\ save_calls' = Append(save_calls,
               [item |-> item_idx,
                name |-> StandaloneName(filename_prefix, group_counter),
                saved |-> saved])
        /\ group_counter' = IF saved THEN group_counter + 1 ELSE group_counter
    /\ item_idx' = item_idx + 1
    /\ UNCHANGED <<filename_prefix, image_items, processed_indices>>
    /\ UNCHANGED nonGroupVars

GroupNext ==
    \/ SkipProcessed
    \/ SaveCarousel
    \/ SaveStandalone

(***************************************************************************)
(* Properties of the file naming loop *)
(***************************************************************************)
GroupDone == item_idx > Len(image_items) /\ Len(image_items) > 0

EverySaveSucceeded == \A c \in 1..Len(save_calls) : save_calls[c].saved

\* item j starts a new number: it is standalone, or the first item, or the
\* item before it is not a member of the same carousel
StartsNumber(j) ==
    \/ image_items[j] = "standalone"
    \/ j = 1
    \/ image_items[j - 1] /= image_items[j]

\* the number item i is to take: the count of starts up to i
NumberOf(i) == Cardinality({j \in 1..i : StartsNumber(j)})

\* the position of item i inside its run
PositionInRun(i) ==
    i - (CHOOSE j \in 1..i :
            /\ StartsNumber(j)
            /\ \A m \in (j + 1)..i : ~StartsNumber(m)) + 1

ExpectedName(i) ==
    IF image_items[i] = "standalone"
    THEN StandaloneName(filename_prefix, NumberOf(i))
    ELSE CarouselName(filename_prefix, NumberOf(i), PositionInRun(i))

ExampleList == <<"standalone", "carouselA", "carouselA", "standalone", "carouselB">>

\* C6: when every save succeeds, each standalone image and each run of
\* consecutive members of one carousel takes the next number from 1, members
\* are numbered from 1 inside the run, and runs of one carousel separated by
\* another image get different numbers; the list [standalone, A, A,
\* standalone, B] gives p1, p2.1, p2.2, p3, p4.1.
C6_NamesFollowRuns ==
    (GroupDone /\ EverySaveSucceeded) =>
        /\ Len(save_calls) = Len(image_items)
        /\ \A i \in 1..Len(image_items) :
               save_calls[i].item = i /\ save_calls[i].name = ExpectedName(i)
        /\ image_items = ExampleList =>
               [i \in 1..5 |-> save_calls[i].name] =
                   << StandaloneName(filename_prefix, 1),
                      CarouselName(filename_prefix, 2, 1),
                      CarouselName(filename_prefix, 2, 2),
                      StandaloneName(filename_prefix, 3),
                      CarouselName(filename_prefix, 4, 1) >>

C6_Witness ==
    /\ GroupDone
    /\ EverySaveSucceeded
    /\ image_items = <<"carouselA", "standalone", "carouselA", "carouselA", "carouselB">>
    /\ save_calls[3].name = CarouselName(filename_prefix, 3, 1)
    /\ save_calls[5].name = CarouselName(filename_prefix, 4, 1)

\* C24: each standalone image takes exactly one file number whatever the
\* result of saving it, so the file name given to every image depends only on
\* the ordered list and not on which saves succeeded.
C24_NamesDependOnListOnly ==
    \A c \in 1..Len(save_calls) :
        save_calls[c].name = ExpectedName(save_calls[c].item)

(***************************************************************************)
(* TextParserAgent._parse_title and ParsingMetrics *)
(***************************************************************************)
TitleSelectors ==
    << "#productTitle", "#title", "h1.a-size-large", "[data-feature-name=title]",
       "[data-automation-id=title]", "h1" >>

\* what a selector finds: nothing in the snapshot or the live page; an
\* element of the page (and of its snapshot, when there is one) without or
\* with text; an element of the live page only
LookupOutcomes == {"none", "dom_empty", "dom_text", "live_text"}

max_selector_cache_size == 50

\* find_element_by_selector(selector, use_dom=True): the snapshot's
\* select_one first, when self.dom_soup is set, and the Selenium driver when
\* that finds nothing or when there is no snapshot
find_element_by_selector(has_soup, found) ==
    CASE has_soup /\ found \in {"dom_empty", "dom_text"} ->
             [element |-> found, asked |-> TRUE, live |-> FALSE]
      [] found = "none" -> [element |-> "None", asked |-> has_soup, live |-> TRUE]
      [] OTHER          -> [element |-> found, asked |-> has_soup, live |-> TRUE]

\* clean_html_tags(get_text_from_element(element)) for the element a selector found
get_text_from_element(selector, element) ==
    IF element \in {"dom_text", "live_text"} THEN <<"text of", selector>> ELSE <<>>

\* _trim_selector_cache: drop the max(1, len - max) least recently used
RECURSIVE trim_selector_cache(_, _)
trim_selector_cache(stats, to_remove) ==
    IF to_remove = 0 \/ DOMAIN stats = {} THEN stats
    ELSE LET oldest == CHOOSE k \in DOMAIN stats :
                           \A m \in DOMAIN stats : stats[k].last_used <= stats[m].last_used
         IN  trim_selector_cache([k \in DOMAIN stats \ {oldest} |-> stats[k]],
                                 to_remove - 1)

\* mutation: a failed selector is not recorded
record_success_only(stats, selector, success, now) ==
    IF success
    THEN [k \in DOMAIN stats \cup {selector} |->
             IF k = selector
             THEN [success_count |-> 1, fail_count |-> 0, last_used |-> now]
             ELSE stats[k]]
    ELSE stats

\* ParsingMetrics.record_selector_success(selector, success) at time now
record_selector_success(stats, selector, success, now) ==
    LET old == IF selector \in DOMAIN stats THEN stats[selector]
               ELSE [success_count |-> 0, fail_count |-> 0, last_used |-> 0]
        new == [success_count |-> old.success_count + (IF success THEN 1 ELSE 0),
                fail_count    |-> old.fail_count + (IF success THEN 0 ELSE 1),
                last_used     |-> now]
        added == [k \in DOMAIN stats \cup {selector} |->
                     IF k = selector THEN new ELSE stats[k]]
        size == Cardinality(DOMAIN added)
    IN  IF size > max_selector_cache_size
        THEN trim_selector_cache(added,
                 IF size - max_selector_cache_size > 1
                 THEN size - max_selector_cache_size ELSE 1)
        ELSE added

TitleInit ==
    /\ title_page \in [1..Len(TitleSelectors) -> LookupOutcomes]
    /\ selector_pos = 1
    /\ title_value = <<"unset">>
    /\ selector_stats = << >>
    /\ live_lookups = {}
    /\ title_soup \in BOOLEAN
    /\ snapshot_lookups = {}
    /\ fallback_usage = 0

\* no title extraction is running
TitleIdle ==
    /\ title_page = [i \in 1..Len(TitleSelectors) |-> "none"]
    /\ selector_pos = 1
    /\ title_value = <<"unset">>
    /\ selector_stats = << >>
    /\ live_lookups = {}
    /\ title_soup = TRUE
    /\ snapshot_lookups = {}
    /\ fallback_usage = 0

\* one iteration of the selector loop.  base_parser.py:45-46 logs the
\* fallback to Selenium; nothing calls ParsingMetrics.record_fallback
TrySelector ==
    /\ title_value = <<"unset">>
    /\ selector_pos <= Len(TitleSelectors)
    /\ LET selector == TitleSelectors[selector_pos]
           looked   == find_element_by_selector(title_soup, title_page[selector_pos])
           title    == get_text_from_element(selector, looked.element)
           success  == looked.element /= "None" /\ title /= <<>>
       IN  /\ selector_stats' =
                  record_selector_success(selector_stats, selector, success, selector_pos)
           /\ title_value' = IF success THEN title ELSE <<"unset">>
           /\ live_lookups' = IF looked.live THEN live_lookups \cup {selector}
                              ELSE live_lookups
           /\ snapshot_lookups' = IF looked.asked THEN snapshot_lookups \cup {selector}
                                  ELSE snapshot_lookups
    /\ selector_pos' = selector_pos + 1
    /\ UNCHANGED <<title_page, title_soup, fallback_usage>>
    /\ UNCHANGED nonTitleVars

\* every selector failed: "Title not found", return None
TitleNotFound ==
    /\ title_value = <<"unset">>
    /\ selector_pos > Len(TitleSelectors)
    /\ title_value' = <<"None">>
    /\ UNCHANGED <<title_page, selector_pos, selector_stats, live_lookups, title_soup,
                   snapshot_lookups, fallback_usage>>
    /\ UNCHANGED nonTitleVars

TitleNext ==
    \/ TrySelector
    \/ TitleNotFound

(***************************************************************************)
(* Properties of _parse_title *)
(***************************************************************************)
\* the selector yields a title
Yields(i) == title_page[i] \in {"dom_text", "live_text"}

OnlyThirdYields == \A i \in 1..Len(TitleSelectors) : Yields(i) <=> i = 3

C21_LiveOnlyAfterSnapshot == live_lookups \subseteq snapshot_lookups

\* C22: every fallback from the snapshot to the live page handle is recorded
\* in the metrics tracker: when the extraction has returned, the tracker's
\* fallback count equals the number of live lookups the extractor made.
C22_FallbacksCounted ==
    title_value /= <<"unset">> => fallback_usage = Cardinality(live_lookups)

(***************************************************************************)
(* The section search of the A+ parsers on a page without the section *)
(***************************************************************************)
SectionParsers == {"brand", "manufacturer", "product"}

\* specific_selectors of a parser
specific_selectors(parser) ==
    CASE parser = "brand" ->
             <<"#aplusBrandStory_feature_div", "[data-feature-name=aplusBrandStory]">>
      [] parser = "manufacturer" ->
             <<"#manufacturer_feature_div", "[data-feature-name=manufacturer]",
               "[data-feature-name=fromTheManufacturer]">>
      [] OTHER ->
             <<"#productDescription_feature_div", "[data-feature-name=productDescription]">>

general_selectors ==
    <<"#aplus_feature_div", "#aplus", ".aplus-module", "[data-feature-name=aplus]">>

all_selectors(parser) == specific_selectors(parser) \o general_selectors

max_selector_checks == 3

\* the brand and manufacturer parsers have the early return, the product
\* parser's loop has none
HasBudget(parser) == parser \in {"brand", "manufacturer"}

\* on a page without the target section, what find_elements gives for the
\* selector at position i: nothing, an exception, or (general selectors
\* only) sections of other A+ content
AbsentSectionOutcomes(parser, i) ==
    IF i <= Len(specific_selectors(parser))
    THEN {"empty", "error"}
    ELSE {"empty", "error", "other_sections"}

AbsentSectionPages(parser) ==
    {pg \in [1..Len(all_selectors(parser)) -> {"empty", "error", "other_sections"}] :
        \A i \in DOMAIN pg : pg[i] \in AbsentSectionOutcomes(parser, i)}

SearchInit ==
    /\ section_parser \in SectionParsers
    /\ heading \in {"present", "absent", "error"}
    /\ section_page \in AbsentSectionPages(section_parser)
    /\ search_pc = "precheck"
    /\ search_idx = 0
    /\ sections_found = FALSE
    /\ selectors_tried = 0

\* no section search is running
SearchIdle ==
    /\ section_parser = "brand"
    /\ heading = "absent"
    /\ section_page = [i \in 1..Len(all_selectors("brand")) |-> "empty"]
    /\ search_pc = "precheck"
    /\ search_idx = 0
    /\ sections_found = FALSE
    /\ selectors_tried = 0

\* the h2 pre-check: no heading with the marker returns empty at once; a
\* heading, or an exception of the check, lets the search begin
HeadingPreCheck ==
    /\ search_pc = "precheck"
    /\ search_pc' = IF heading = "absent" THEN "returned" ELSE "search"
    /\ UNCHANGED <<section_parser, heading, section_page, search_idx, sections_found,
                   selectors_tried>>
    /\ UNCHANGED nonSearchVars

\* one iteration of `for idx, selector in enumerate(all_selectors)`
CheckSelector ==
    /\ search_pc = "search"
    /\ search_idx < Len(all_selectors(section_parser))
    /\ selectors_tried' = selectors_tried + 1
    /\ LET sections == section_page[search_idx + 1]
       IN  /\ sections_found' =
                  (sections_found \/ (HasBudget(section_parser) /\ sections = "other_sections"))
           /\ search_pc' =
                  IF /\ sections = "empty"
                     /\ HasBudget(section_parser)
                     /\ search_idx >= max_selector_checks
                     /\ ~sections_found
                  THEN "returned"
                  ELSE "search"
    /\ search_idx' = search_idx + 1
    /\ UNCHANGED <<section_parser, heading, section_page>>
    /\ UNCHANGED nonSearchVars

\* the selector list is exhausted
SearchExhausted ==
    /\ search_pc = "search"
    /\ search_idx = Len(all_selectors(section_parser))
    /\ search_pc' = "returned"
    /\ UNCHANGED <<section_parser, heading, section_page, search_idx, sections_found,
                   selectors_tried>>
    /\ UNCHANGED nonSearchVars

SearchNext ==
    \/ HeadingPreCheck
    \/ CheckSelector
    \/ SearchExhausted

(***************************************************************************)
(* Properties of the section search *)
(***************************************************************************)
\* C8: on a page without the target section where the heading pre-check did
\* not stop the search, a section parser tries no more selectors than the
\* selector-check budget.
C8_SearchWithinBudget ==
    (heading /= "absent") => selectors_tried <= max_selector_checks

(***************************************************************************)
(* The text extractors over the DOM snapshot *)
(***************************************************************************)
\* bound: extractor runs over one snapshot
MaxRuns == 3

\* elements a product page can hold that the extractors below select:
\*   brand_h2, brand_text      inside #aplusBrandStory_feature_div
\*   desc_button, desc_text    inside #productDescription_feature_div
\*   bullet_key, bullet_value  span.a-text-bold and the text after it inside
\*                             an li of #detailBullets_feature_div
SnapshotNodes ==
    {"brand_h2", "brand_text", "desc_button", "desc_text", "bullet_key", "bullet_value"}

Extractors == {"from_the_brand", "product_description", "product_details"}

\* the elements an extractor removes from the document it is given:
\* nav.decompose() for '.a-carousel-control, .a-button, h2' inside the
\* section, bold_span.extract() inside the detail bullets
Removes(extractor, doc) ==
    CASE extractor = "from_the_brand"      -> doc \cap {"brand_h2"}
      [] extractor = "product_description" -> doc \cap {"desc_button"}
      [] OTHER                             -> doc \cap {"bullet_key"}

\* the value an extractor returns for the document it is given: the text
\* left in the section (None when there is none), or the key/value pairs
\* of the detail bullets (none when the bold key is missing: the text that
\* is left has no colon to split at)
Extracts(extractor, doc) ==
    CASE extractor = "from_the_brand"      -> doc \cap {"brand_text"}
      [] extractor = "product_description" -> doc \cap {"desc_text"}
      [] OTHER ->
             IF {"bullet_key", "bullet_value"} \subseteq doc
             THEN {<<"bullet_key", "bullet_value">>}
             ELSE {}

SnapshotInit ==
    /\ captured \in SUBSET SnapshotNodes
    /\ soup = captured
    /\ extractor_runs = <<>>

\* no snapshot has been parsed
SnapshotIdle ==
    /\ captured = {}
    /\ soup = {}
    /\ extractor_runs = <<>>

RunExtractor(extractor) ==
    /\ Len(extractor_runs) < MaxRuns
    /\ extractor_runs' = Append(extractor_runs,
           [extractor |-> extractor, met |-> soup, result |-> Extracts(extractor, soup)])
    /\ soup' = soup \ Removes(extractor, soup)
    /\ UNCHANGED captured
    /\ UNCHANGED nonSnapshotVars

ParseFromTheBrand == RunExtractor("from_the_brand")

ParseProductDescription == RunExtractor("product_description")

ParseProductDetails == RunExtractor("product_details")

SnapshotNext ==
    \/ ParseFromTheBrand
    \/ ParseProductDescription
    \/ ParseProductDetails

(***************************************************************************)
(* Properties of the snapshot *)
(***************************************************************************)
\* C9: extractors run against one snapshot in any order all meet the
\* document as it was captured, no extractor changes the snapshot, and each
\* returns what it returns when run alone on the captured document.
C9_SnapshotUnchanged ==
    /\ soup = captured
    /\ \A r \in 1..Len(extractor_runs) :
           /\ extractor_runs[r].met = captured
           /\ extractor_runs[r].result = Extracts(extractor_runs[r].extractor, captured)

(***************************************************************************)
(* The web front end: start_parsing *)
(***************************************************************************)
\* bound: start requests
MaxRequests == 2

\* the 'url' form field: empty, not an Amazon URL, or an Amazon URL
UrlKinds == {"empty", "other_site", "amazon"}

\* a checkbox field of the form: checked, missing, or another value
FormValues == {"on", "absent", "true"}

\* the forms of the model: the 'text' field takes every value, the other
\* fields are checked or missing
Forms == {form \in [Toggles -> FormValues] : \A t \in Toggles \ {"text"} : form[t] /= "true"}

\* config[...] = request.form.get(...) == 'on'
ConfigOfForm(form) == [t \in Toggles |-> form[t] = "on"]

\* mutation: the request is taken whatever is selected
AlwaysSelected(cfg) == TRUE

\* has_images or has_text or has_reviews
AnythingSelected(cfg) == need_images(cfg) \/ cfg["text"] \/ cfg["reviews"]

NoRequest ==
    [url |-> "empty", form |-> [t \in Toggles |-> "absent"], code |-> 0,
     created |-> FALSE, started |-> FALSE]

StartInit ==
    /\ requests_handled = 0
    /\ task_rows = 0
    /\ workers_started = 0
    /\ last_request = NoRequest

\* POST /start_parsing: 400 for a missing or foreign URL and for a form with
\* nothing selected; otherwise a task row and a worker thread.  An
\* exception of db.create_task is answered with 500.
StartParsing ==
    /\ requests_handled < MaxRequests
    /\ requests_handled' = requests_handled + 1
    /\ \E url \in UrlKinds, form \in Forms, insert_ok \in BOOLEAN :
        LET cfg == ConfigOfForm(form)
        IN  IF url /= "amazon" \/ ~AnythingSelected(cfg)
            THEN /\ last_request' = [url |-> url, form |-> form, code |-> 400,
                                     created |-> FALSE, started |-> FALSE]
                 /\ UNCHANGED <<task_rows, workers_started>>
            ELSE IF insert_ok
            THEN /\ task_rows' = task_rows + 1
                 /\ workers_started' = workers_started + 1
                 /\ last_request' = [url |-> url, form |-> form, code |-> 200,
                                     created |-> TRUE, started |-> TRUE]
            ELSE /\ last_request' = [url |-> url, form |-> form, code |-> 500,
                                     created |-> FALSE, started |-> FALSE]
                 /\ UNCHANGED <<task_rows, workers_started>>
    /\ UNCHANGED nonStartVars

StartNext == StartParsing

(***************************************************************************)
(* Properties of start_parsing *)
(***************************************************************************)
AllTogglesFalse(form) == \A t \in Toggles : ~ConfigOfForm(form)[t]

\* C11: a start request whose toggles are all false is rejected before a
\* task is created: it inserts no task row and starts no worker.
C11_AllFalseRejected ==
    (requests_handled > 0 /\ AllTogglesFalse(last_request.form)) =>
        /\ last_request.code = 400
        /\ ~last_request.created
        /\ ~last_request.started
        /\ task_rows < requests_handled
        /\ workers_started < requests_handled

C11_Witness ==
    /\ requests_handled = 2
    /\ task_rows = 1
    /\ last_request.url = "amazon"
    /\ last_request.form["text"] = "true"
    /\ AllTogglesFalse(last_request.form)
    /\ last_request.code = 400

(***************************************************************************)
(* Coordinator._run_with_retry *)
(***************************************************************************)
\* bound: the largest max_retries argument and MAX_RETRIES setting
MaxSetting == 4

\* config/settings.py: MAX_RETRIES, unless the environment overrides it
MAX_RETRIES == 3

\* how one call of the wrapped function ends: it raises an Exception, it
\* returns a result that holds nothing, or it returns a result that holds data
FuncOutcomes == {"raised", "empty", "value"}

\* line 394: max_retries = max_retries or Settings.MAX_RETRIES
EffectiveMax == IF retry_arg /= 0 THEN retry_arg ELSE retry_setting

RetryInit ==
    /\ retry_arg \in 0..MaxSetting
    /\ retry_setting \in 0..MaxSetting
    /\ attempt = 0
    /\ call_log = <<>>
    /\ backoff = <<>>
    /\ retry_pc = "loop"
    /\ retry_result = "none"

\* a loop that also takes an empty result for a failed attempt
RetryAttemptRetryingEmpty ==
    /\ retry_pc = "loop"
    /\ attempt < EffectiveMax
    /\ \E outcome \in FuncOutcomes :
          /\ call_log' = Append(call_log, outcome)
          /\ IF outcome \in {"raised", "empty"}
             THEN /\ attempt' = attempt + 1
                  /\ backoff' = IF attempt < EffectiveMax - 1
                                THEN Append(backoff, 2 ^ attempt)
                                ELSE backoff
                  /\ UNCHANGED <<retry_pc, retry_result>>
             ELSE /\ retry_pc' = "returned"
                  /\ retry_result' = outcome
                  /\ UNCHANGED <<attempt, backoff>>
    /\ UNCHANGED <<retry_arg, retry_setting>>
    /\ UNCHANGED nonRetryVars

\* lines 397-405: one pass of the for loop.  A return leaves the loop; an
\* Exception is kept, and the loop sleeps unless it was the last attempt
RetryAttempt ==
    /\ retry_pc = "loop"
    /\ attempt < EffectiveMax
    /\ \E outcome \in FuncOutcomes :
          /\ call_log' = Append(call_log, outcome)
          /\ IF outcome = "raised"
             THEN /\ attempt' = attempt + 1
                  /\ backoff' = IF attempt < EffectiveMax - 1
                                THEN Append(backoff, 2 ^ attempt)
                                ELSE backoff
                  /\ UNCHANGED <<retry_pc, retry_result>>
             ELSE /\ retry_pc' = "returned"
                  /\ retry_result' = outcome
                  /\ UNCHANGED <<attempt, backoff>>
    /\ UNCHANGED <<retry_arg, retry_setting>>
    /\ UNCHANGED nonRetryVars

\* lines 407-408: range(max_retries) is used up: return {'errors': [...]}
RetryExhausted ==
    /\ retry_pc = "loop"
    /\ attempt >= EffectiveMax
    /\ retry_pc' = "returned"
    /\ retry_result' = "errdict"
    /\ UNCHANGED <<retry_arg, retry_setting, attempt, call_log, backoff>>
    /\ UNCHANGED nonRetryVars

RetryNext ==
    \/ RetryAttempt
    \/ RetryExhausted

\* C19: _run_with_retry calls the wrapped function at most the configured
\* maximum number of times; every call but the latest one raised an exception,
\* so the function is called again only after a raise and never after a call
\* that returned, an empty result included; a returned result is handed back.
C19_RetryOnlyAfterException ==
    /\ Len(call_log) <= EffectiveMax
    /\ \A i \in 1..(Len(call_log) - 1) : call_log[i] = "raised"
    /\ (retry_pc = "returned" /\ retry_result /= "errdict") =>
           /\ call_log /= <<>>
           /\ call_log[Len(call_log)] = retry_result

\* C19 witness: with the default maximum of three the third call returned an
\* empty result after two raises, and that result was handed back
C19_Witness ==
    /\ retry_arg = 0
    /\ retry_setting = MAX_RETRIES
    /\ retry_pc = "returned"
    /\ call_log = <<"raised", "raised", "empty">>
    /\ retry_result = "empty"
    /\ backoff = <<1, 2>>

\* no invocation is running: the state the other specifications keep it in
RetryIdle ==
    /\ retry_arg = 0
    /\ retry_setting = MAX_RETRIES
    /\ attempt = 0
    /\ call_log = <<>>
    /\ backoff = <<>>
    /\ retry_pc = "loop"
    /\ retry_result = "none"

(***************************************************************************)
(* Database.update_task: the result summary *)
(***************************************************************************)
\* bound: update_task calls
MaxUpdates == 2

\* line 119: max_size = 10 * 1024 * 1024.  Sizes are counted in units of
\* 1024 * 1024 characters of serialized text
max_size == 10

\* line 131: results.get('errors', [])[:10]
kept_errors == 10

\* the serialized size of one string of the summary: under one unit, one
\* unit, or more than the cap
FieldSizes == {0, 1, max_size + 1}

\* len(results['errors'])
ErrorCounts == {0, 1, kept_errors, kept_errors + 1}

\* coordinator.py:706-724: the summary _prepare_results_summary builds, by the
\* serialized sizes of its parts.  product_name is the page's title,
\* errors holds the envelope's error strings, and the rest (asin,
\* output_dir, performance_metrics, the counts) is summed up as 'other'
Summaries ==
    [product_name : FieldSizes, other : FieldSizes, errors_n : ErrorCounts,
     error_size : FieldSizes, serializable : BOOLEAN]

\* len(json.dumps(results, default=str))
SerializedSize(summary) ==
    summary.product_name + summary.other + summary.errors_n * summary.error_size

Min(a, b) == IF a <= b THEN a ELSE b

\* lines 123-133: the truncated summary keeps product_name, the image
\* counts, three more counts, the two processing time entries and the first
\* ten errors
TruncatedSize(summary) ==
    summary.product_name + Min(summary.errors_n, kept_errors) * summary.error_size

\* lines 113-138: the text appended to params for results_json
WrittenSize(summary) ==
    IF ~summary.serializable
    THEN 0
    ELSE IF SerializedSize(summary) > max_size
         THEN TruncatedSize(summary)
         ELSE SerializedSize(summary)

NoUpdate ==
    [summary |-> [product_name |-> 0, other |-> 0, errors_n |-> 0, error_size |-> 0,
                  serializable |-> TRUE],
     truncated |-> FALSE, written |-> 0]

DbInit ==
    /\ db_updates = 0
    /\ last_update = NoUpdate

\* update_task(task_id, status='completed', results=summary)
UpdateTaskResults ==
    /\ db_updates < MaxUpdates
    /\ \E summary \in Summaries :
          last_update' = [summary |-> summary,
                          truncated |-> summary.serializable
                                        /\ SerializedSize(summary) > max_size,
                          written |-> WrittenSize(summary)]
    /\ db_updates' = db_updates + 1
    /\ UNCHANGED nonDbVars

DbNext == UpdateTaskResults

\* C16: for every result summary passed to update_task the serialized text
\* written to the task store is no larger than the cap; a summary over the
\* cap is replaced by a minimal summary that is itself within the cap.
C16_WrittenWithinCap ==
    db_updates > 0 => last_update.written <= max_size

(***************************************************************************)
(* ValidatorAgent.validate *)
(***************************************************************************)
\* bounds: image files per directory, validate calls on one envelope
MaxFiles == 1
MaxValidations == 2

IMPORTANT_FIELDS == {"brand", "about_this_item", "product_overview"}

\* results['text']['price']: no text section, None, or the string
\* 'Price($): 6.99' that TextParserAgent._parse_price returns
PriceValues == {"absent", "None", "str"}

\* the envelope by what validate reads of it: whether title and asin are
\* truthy, the price, the important fields that are filled, whether the
\* reviews summary has a rating and whether there are reviews.  The pipeline
\* puts no 'qa' and no 'variants' section into the envelope
Envelopes ==
    {e \in [title : BOOLEAN, asin : BOOLEAN, price : PriceValues,
            important : SUBSET IMPORTANT_FIELDS, rating : BOOLEAN, reviews : BOOLEAN] :
        e.price = "absent" => (~e.title /\ ~e.asin /\ e.important = {})}

\* the image files of the output directory: hero/, product/ and the other
\* directories _validate_images counts (aplus_brand/, aplus_product/, QAImages/)
Directories == [hero : 0..MaxFiles, product : 0..MaxFiles, other : 0..MaxFiles]

\* lines 114-142: image_stats
ImageStats(fs) ==
    [hero |-> fs.hero, product |-> fs.product, total |-> fs.hero + fs.product + fs.other]

NoStats == [hero |-> 0, product |-> 0, total |-> 0]

\* weights in hundredths of a point: 13.33 for a required field, 10 for an
\* important field, 5 for each image, review and Q&A item
Points(present, weight) == IF present THEN weight ELSE 0

\* lines 224-232: value.get('current_price') is what earns the price weight
PriceEarns(price) == FALSE

\* lines 216-265: score; the envelope has no 'qa' section
Earned(e, stats, price_earns) ==
    Points(e.title, 1333) + Points(e.asin, 1333) + Points(price_earns, 1333)
    + 1000 * Cardinality(e.important)
    + Points(stats.total > 0, 500) + Points(stats.hero > 0, 500)
    + Points(stats.product > 0, 500)
    + Points(e.rating, 500) + Points(e.reviews, 500)

\* lines 216-265: max_score
Possible == 3 * 1333 + 3 * 1000 + 1500 + 1000 + 500

\* lines 86-101: missing_required as far as the loop gets
MissingRequired(e) ==
    {f \in {"title", "asin"} : ~e[f]} \cup (IF e.price = "str" THEN {} ELSE {"price"})

\* lines 20-84: the report.  A price string has no .get: line 93 raises
\* AttributeError, caught at line 80, and the score stays 0.0; a price of
\* None passes the checks and raises in _generate_summary (line 278), after
\* the score was stored.  score is <<numerator, denominator>> of
\* completeness_score / 100
Report(e, fs) ==
    IF e.price = "str"
    THEN [raised |-> "required fields", missing_required |-> MissingRequired(e),
          image_stats |-> NoStats, score |-> <<0, 1>>]
    ELSE [raised |-> IF e.price = "None" THEN "summary" ELSE "none",
          missing_required |-> MissingRequired(e),
          image_stats |-> ImageStats(fs),
          score |-> <<Earned(e, ImageStats(fs), PriceEarns(e.price)), Possible>>]

\* line 49-50: _validate_images lists the output directory unless an
\* earlier check raised
ReadsDirectory(e) == e.price /= "str"

NoReport == [raised |-> "none", missing_required |-> {}, image_stats |-> NoStats,
             score |-> <<0, 1>>]

EmptyDirectory == [hero |-> 0, product |-> 0, other |-> 0]

ValidatorInit ==
    /\ envelope \in Envelopes
    /\ validate_calls = 0
    /\ fs_reads = 0
    /\ last_fs = EmptyDirectory
    /\ prev_report = NoReport
    /\ last_report = NoReport

\* agent.validate(results, output_dir) with the output directory as it is
Validate ==
    /\ validate_calls < MaxValidations
    /\ \E fs \in Directories :
          /\ last_fs' = fs
          /\ last_report' = Report(envelope, fs)
    /\ prev_report' = last_report
    /\ validate_calls' = validate_calls + 1
    /\ fs_reads' = IF ReadsDirectory(envelope) THEN fs_reads + 1 ELSE fs_reads
    /\ UNCHANGED envelope
    /\ UNCHANGED nonValidatorVars

ValidatorNext == Validate

\* the two fractions are equal
SameScore(a, b) == a[1] * b[2] = b[1] * a[2]

\* C17: the completeness score validate returns is earned / possible * 100,
\* where title, identifier and price each earn the required-field weight when
\* the text extractor produced a value for them (the image items are counted
\* as validate counts them).
C17_ScoreIsEarnedOverPossible ==
    validate_calls > 0 =>
        SameScore(last_report.score,
                  <<Earned(envelope, ImageStats(last_fs), envelope.price = "str"), Possible>>)

\* C18: the validator is a pure function of the envelope: it performs no I/O,
\* and two validate calls on the same envelope return equal reports whatever
\* the output directory holds.
C18_ValidatorIsPure ==
    /\ fs_reads = 0
    /\ validate_calls >= 2 => prev_report = last_report

\* no validation is running: the state the other specifications keep it in
ValidatorIdle ==
    /\ envelope = [title |-> FALSE, asin |-> FALSE, price |-> "absent", important |-> {},
                   rating |-> FALSE, reviews |-> FALSE]
    /\ validate_calls = 0
    /\ fs_reads = 0
    /\ last_fs = EmptyDirectory
    /\ prev_report = NoReport
    /\ last_report = NoReport

(***************************************************************************)
(* TextParserAgent.parse: one extraction pass *)
(***************************************************************************)
\* bound: the fields of the pass that the model follows
MaxFields == 5

\* lines 58-70: the assignments of the try block, in order
AllFields ==
    << "title", "brand", "price", "asin", "product_overview", "about_this_item",
       "from_the_brand", "sustainability_features", "product_description",
       "product_details", "important_information", "technical_details", "ingredients" >>

FieldOrder == SubSeq(AllFields, 1, MaxFields)

\* what a field's extractor does: it returns a value, it returns its empty
\* value, or it raises (the extractors have no try block around their bodies:
\* element.text of a stale Selenium element raises in _parse_brand)
FieldOutcomes == {"found", "not_found", "raises"}

PassInit ==
    /\ field_page \in [1..Len(FieldOrder) -> FieldOutcomes]
    /\ field_pos = 1
    /\ text_results = [i \in 1..Len(FieldOrder) |-> "default"]
    /\ text_errors = 0
    /\ pass_pc = "try"

\* lines 57-76: results[field] = self._parse_field(); an exception leaves the
\* try block for the except clause at line 74, which appends to
\* results['errors'] and is followed by the return
ExtractField ==
    /\ pass_pc = "try"
    /\ field_pos <= Len(FieldOrder)
    /\ IF field_page[field_pos] = "raises"
       THEN /\ text_errors' = text_errors + 1
            /\ pass_pc' = "returned"
            /\ UNCHANGED <<text_results, field_pos>>
       ELSE /\ text_results' = [text_results EXCEPT ![field_pos] =
                                   IF field_page[field_pos] = "found"
                                   THEN "value" ELSE "default"]
            /\ field_pos' = field_pos + 1
            /\ UNCHANGED <<text_errors, pass_pc>>
    /\ UNCHANGED field_page
    /\ UNCHANGED nonPassVars

\* lines 72-78: the try block is through: return results
PassReturns ==
    /\ pass_pc = "try"
    /\ field_pos > Len(FieldOrder)
    /\ pass_pc' = "returned"
    /\ UNCHANGED <<field_page, field_pos, text_results, text_errors>>
    /\ UNCHANGED nonPassVars

PassNext ==
    \/ ExtractField
    \/ PassReturns

\* C23: an exception raised while extracting one field is downgraded to that
\* field being not found: when the pass has returned, every field whose
\* extractor finds a value on the page has that value in the result.
C23_OtherFieldsStillExtracted ==
    pass_pc = "returned" =>
        \A i \in 1..Len(FieldOrder) :
            field_page[i] = "found" => text_results[i] = "value"

\* no pass is running: the state the other specifications keep it in
PassIdle ==
    /\ field_page = [i \in 1..Len(FieldOrder) |-> "not_found"]
    /\ field_pos = 1
    /\ text_results = [i \in 1..Len(FieldOrder) |-> "default"]
    /\ text_errors = 0
    /\ pass_pc = "try"

(***************************************************************************)
(* create_output_structure called by the threads of concurrent tasks *)
(***************************************************************************)
\* bound: tasks whose threads run at the same time
MaxTasks == 2

Tasks == 1..MaxTasks

ProductNames == {"Widget", "Widget?", "Gadget"}

\* sanitize_filename: the characters <>:"/\|?* are removed
sanitize_filename(name) == IF name = "Widget?" THEN "Widget" ELSE name

\* the directory `name` (counter 1) or `name (counter)`
BaseDir(t) == <<sanitize_filename(out_product[t]), out_counter[t]>>

NoDir == <<"none", 0>>

\* directories left by earlier tasks
EarlierDirs == {{}, {<<"Widget", 1>>}, {<<"Widget", 1>>, <<"Widget", 2>>}}

OutdirInit ==
    /\ out_product \in [Tasks -> ProductNames]
    /\ out_counter = [t \in Tasks |-> 1]
    /\ out_pc = [t \in Tasks |-> "check"]
    /\ out_result = [t \in Tasks |-> NoDir]
    /\ dirs \in EarlierDirs

\* lines 61-63: one evaluation of `while base_dir.exists()` and, when the
\* directory exists, the loop body
BaseDirExists(t) ==
    /\ out_pc[t] = "check"
    /\ IF BaseDir(t) \in dirs
       THEN /\ out_counter' = [out_counter EXCEPT ![t] = @ + 1]
            /\ UNCHANGED out_pc
       ELSE /\ out_pc' = [out_pc EXCEPT ![t] = "mkdir"]
            /\ UNCHANGED out_counter
    /\ UNCHANGED <<out_product, out_result, dirs>>
    /\ UNCHANGED nonOutdirVars

\* lines 66-69: base_dir.mkdir(parents=True, exist_ok=True) and the return;
\* exist_ok makes the call succeed when the directory is there by now
BaseDirMkdir(t) ==
    /\ out_pc[t] = "mkdir"
    /\ dirs' = dirs \cup {BaseDir(t)}
    /\ out_result' = [out_result EXCEPT ![t] = BaseDir(t)]
    /\ out_pc' = [out_pc EXCEPT ![t] = "returned"]
    /\ UNCHANGED <<out_product, out_counter>>
    /\ UNCHANGED nonOutdirVars

OutdirNext ==
    \/ \E t \in Tasks : BaseDirExists(t)
    \/ \E t \in Tasks : BaseDirMkdir(t)

\* C28: two tasks never receive the same directory from
\* create_output_structure, also when they run concurrently for the same
\* product name.
C28_OwnOutputDirectory ==
    \A t1, t2 \in Tasks :
        (t1 /= t2 /\ out_pc[t1] = "returned" /\ out_pc[t2] = "returned")
            => out_result[t1] /= out_result[t2]

\* no task is making its directory: the state the other specifications keep
OutdirIdle ==
    /\ out_product = [t \in Tasks |-> "Gadget"]
    /\ out_counter = [t \in Tasks |-> 1]
    /\ out_pc = [t \in Tasks |-> "check"]
    /\ out_result = [t \in Tasks |-> NoDir]
    /\ dirs = {}

(***************************************************************************)
(* The browser handles of concurrent tasks: web/app.py run_parsing_task, *)
(* Coordinator.run_parsing and core/browser_pool.py *)
(***************************************************************************)
\* bound: get_driver calls by the agents of one task
MaxUses == 2

PoolIds == 1..MaxTasks
HandleIds == 1..(2 * MaxTasks)

HandlesInit ==
    /\ pool_of = [t \in Tasks |-> 0]
    /\ pool_driver = [p \in PoolIds |-> 0]
    /\ pools_made = 0
    /\ handles_made = 0
    /\ handle_creator = [h \in HandleIds |-> 0]
    /\ handle_users = [h \in HandleIds |-> {}]
    /\ handle_releasers = [h \in HandleIds |-> {}]
    /\ driver_uses = [t \in Tasks |-> 0]
    /\ thread_pc = [t \in Tasks |-> "start"]

\* mutation: one BrowserPool made at module level serves every task
InitBrowserPoolShared(t) ==
    /\ thread_pc[t] = "start"
    /\ pool_of' = [pool_of EXCEPT ![t] = 1]
    /\ pools_made' = IF pools_made = 0 THEN 1 ELSE pools_made
    /\ thread_pc' = [thread_pc EXCEPT ![t] = "navigate"]
    /\ UNCHANGED <<pool_driver, handles_made, handle_creator, handle_users,
                   handle_releasers, driver_uses>>
    /\ UNCHANGED nonHandlesVars

\* app.py line 46 and coordinator.py line 92: the thread of the task makes
\* its own Coordinator, whose run_parsing makes a new BrowserPool with
\* _driver = None (browser_pool.py lines 24-26)
InitBrowserPool(t) ==
    /\ thread_pc[t] = "start"
    /\ pool_of' = [pool_of EXCEPT ![t] = pools_made + 1]
    /\ pools_made' = pools_made + 1
    /\ thread_pc' = [thread_pc EXCEPT ![t] = "navigate"]
    /\ UNCHANGED <<pool_driver, handles_made, handle_creator, handle_users,
                   handle_releasers, driver_uses>>
    /\ UNCHANGED nonHandlesVars

\* BrowserPool.get_driver followed by a call on the driver, lines 96-170:
\* the pool's _driver when it has one, otherwise a new uc.Chrome
UseHandle(t, next_pc) ==
    LET p == pool_of[t]
    IN  IF pool_driver[p] /= 0
        THEN /\ handle_users' =
                    [handle_users EXCEPT ![pool_driver[p]] = @ \cup {t}]
             /\ thread_pc' = [thread_pc EXCEPT ![t] = next_pc]
             /\ UNCHANGED <<pool_driver, handles_made, handle_creator>>
        ELSE /\ handles_made < 2 * MaxTasks
             /\ \/ /\ handles_made' = handles_made + 1
                   /\ pool_driver' = [pool_driver EXCEPT ![p] = handles_made + 1]
                   /\ handle_creator' =
                          [handle_creator EXCEPT ![handles_made + 1] = t]
                   /\ handle_users' =
                          [handle_users EXCEPT ![handles_made + 1] = @ \cup {t}]
                   /\ thread_pc' = [thread_pc EXCEPT ![t] = next_pc]
                \/ /\ thread_pc' = [thread_pc EXCEPT ![t] = "finally"]
                   /\ UNCHANGED <<pool_driver, handles_made, handle_creator,
                                  handle_users>>

\* coordinator.py lines 95-106: navigate_to calls get_driver for the first
\* time; uc.Chrome may raise, and the exception ends the try block
NavigateTo(t) ==
    /\ thread_pc[t] = "navigate"
    /\ UseHandle(t, "parse")
    /\ UNCHANGED <<pool_of, pools_made, handle_releasers, driver_uses>>
    /\ UNCHANGED nonHandlesVars

\* an agent of the task calls self.browser.get_driver()
AgentUsesDriver(t) ==
    /\ thread_pc[t] = "parse"
    /\ driver_uses[t] < MaxUses
    /\ driver_uses' = [driver_uses EXCEPT ![t] = @ + 1]
    /\ UseHandle(t, thread_pc[t])
    /\ UNCHANGED <<pool_of, pools_made, handle_releasers>>
    /\ UNCHANGED nonHandlesVars

\* the try block of run_parsing ends, by its last statement or by an exception
LeaveTry(t) ==
    /\ thread_pc[t] = "parse"
    /\ thread_pc' = [thread_pc EXCEPT ![t] = "finally"]
    /\ UNCHANGED <<pool_of, pool_driver, pools_made, handles_made, handle_creator,
                   handle_users, handle_releasers, driver_uses>>
    /\ UNCHANGED nonHandlesVars

\* coordinator.py lines 271-274 and browser_pool.py lines 194-211: the finally
\* block calls close_driver of the coordinator's pool, which quits the
\* pool's _driver and sets it to None
ReleaseHandle(t) ==
    /\ thread_pc[t] = "finally"
    /\ LET p == pool_of[t]
       IN  IF pool_driver[p] /= 0
           THEN /\ handle_releasers' =
                       [handle_releasers EXCEPT ![pool_driver[p]] = @ \cup {t}]
                /\ pool_driver' = [pool_driver EXCEPT ![p] = 0]
           ELSE UNCHANGED <<handle_releasers, pool_driver>>
    /\ thread_pc' = [thread_pc EXCEPT ![t] = "ended"]
    /\ UNCHANGED <<pool_of, pools_made, handles_made, handle_creator, handle_users,
                   driver_uses>>
    /\ UNCHANGED nonHandlesVars

HandlesNext ==
    \/ \E t \in Tasks : InitBrowserPool(t)
    \/ \E t \in Tasks : NavigateTo(t)
    \/ \E t \in Tasks : AgentUsesDriver(t)
    \/ \E t \in Tasks : LeaveTry(t)
    \/ \E t \in Tasks : ReleaseHandle(t)

\* the handles a task has called or quit
HandlesOf(t) ==
    {h \in HandleIds : t \in handle_users[h] \cup handle_releasers[h]}

\* C29: each task uses one browser handle, owned by that task alone: no
\* handle is ever used or released by a task other than the one that
\* created it, for tasks running concurrently.
C29_HandleOwnedByCreator ==
    /\ \A h \in HandleIds :
           handle_users[h] \cup handle_releasers[h] \subseteq {handle_creator[h]}
    /\ \A t \in Tasks : Cardinality(HandlesOf(t)) <= 1

\* C29 witness: two tasks are parsing at the same time, each has used the
\* handle it created, and the second task's handle was created first
C29_Witness ==
    /\ thread_pc[1] = "parse" /\ thread_pc[2] = "parse"
    /\ driver_uses[1] >= 1 /\ driver_uses[2] >= 1
    /\ handle_creator[1] = 2 /\ handle_creator[2] = 1
    /\ handle_users[1] = {2} /\ handle_users[2] = {1}

\* no task thread is running: the state the other specifications keep
HandlesIdle == HandlesInit

(***************************************************************************)
(* ParsingMetrics: the selector cache at its size limit *)
(***************************************************************************)
\* bound: the max_selector_cache_size values given to ParsingMetrics(...)
MaxCacheSize == 2

\* bound: record_selector_success calls on one ParsingMetrics object
MaxRecords == 4

CacheSelectors == {"#productTitle", "#title", "h1"}

CacheInit ==
    /\ cache_max \in 1..MaxCacheSize
    /\ cache_stats = << >>
    /\ cache_order = << >>
    /\ clock = 0
    /\ recency = << >>
    /\ evicted = {}
    /\ expected_lru = {}
    /\ record_calls = 0

\* a sequence without the entries in `gone`
RECURSIVE Without(_, _)
Without(seq, gone) ==
    IF seq = << >> THEN << >>
    ELSE IF Head(seq) \in gone THEN Without(Tail(seq), gone)
    ELSE <<Head(seq)>> \o Without(Tail(seq), gone)

\* sorted(self.selector_stats.items(), key=last_used)[:to_remove]: the sort is
\* stable, so of entries with equal last_used the one earlier in the dict
\* comes first
RECURSIVE OldestFirst(_, _, _)
OldestFirst(stats, order, to_remove) ==
    IF to_remove = 0 \/ order = << >> THEN {}
    ELSE LET i == CHOOSE i \in 1..Len(order) :
                      /\ \A j \in 1..Len(order) :
                             stats[order[i]].last_used <= stats[order[j]].last_used
                      /\ \A j \in 1..(i - 1) :
                             stats[order[j]].last_used > stats[order[i]].last_used
         IN  {order[i]} \cup OldestFirst(stats, Without(order, {order[i]}), to_remove - 1)

\* datetime.now(): the clock has a finite resolution, so a call may read the
\* value the call before it read
Now == {clock, clock + 1}

\* record_selector_success(selector, success), lines 52-69, with
\* _trim_selector_cache, lines 159-173
RecordSelector ==
    /\ record_calls < MaxRecords
    /\ \E selector \in CacheSelectors, success \in BOOLEAN, now \in Now :
        LET old == IF selector \in DOMAIN cache_stats THEN cache_stats[selector]
                   ELSE [success_count |-> 0, fail_count |-> 0, last_used |-> 0]
            new == [success_count |-> old.success_count + (IF success THEN 1 ELSE 0),
                    fail_count    |-> old.fail_count + (IF success THEN 0 ELSE 1),
                    last_used     |-> now]
            added == [k \in DOMAIN cache_stats \cup {selector} |->
                         IF k = selector THEN new ELSE cache_stats[k]]
            order == IF selector \in DOMAIN cache_stats THEN cache_order
                     ELSE Append(cache_order, selector)
            used == Append(Without(recency, {selector}), selector)
            size == Len(order)
            to_remove == IF size - cache_max > 1 THEN size - cache_max ELSE 1
            gone == IF size > cache_max THEN OldestFirst(added, order, to_remove)
                    ELSE {}
        IN  /\ cache_stats' = [k \in DOMAIN added \ gone |-> added[k]]
            /\ cache_order' = Without(order, gone)
            /\ evicted' = gone
            /\ expected_lru' = {used[i] : i \in 1..Cardinality(gone)}
            /\ recency' = Without(used, gone)
            /\ clock' = now
    /\ record_calls' = record_calls + 1
    /\ UNCHANGED cache_max
    /\ UNCHANGED nonCacheVars

CacheNext == RecordSelector

\* C30: after every record_selector_success call the number of selectors
\* tracked is at most the configured maximum, and whenever an entry is
\* evicted it is the least recently used one.
C30_BoundedLruCache ==
    /\ Cardinality(DOMAIN cache_stats) <= cache_max
    /\ evicted = expected_lru

\* the size limit alone
CacheWithinLimit == Cardinality(DOMAIN cache_stats) <= cache_max

\* no metrics object is exercised: the state the other specifications keep
CacheIdle ==
    /\ cache_max = 1
    /\ cache_stats = << >>
    /\ cache_order = << >>
    /\ clock = 0
    /\ recency = << >>
    /\ evicted = {}
    /\ expected_lru = {}
    /\ record_calls = 0

(***************************************************************************)
(* Specifications *)
(***************************************************************************)
Init ==
    /\ TaskInit
    /\ StoreInit
    /\ GroupIdle
    /\ TitleIdle
    /\ SearchIdle
    /\ SnapshotIdle
    /\ StartInit
    /\ RetryIdle
    /\ DbInit
    /\ ValidatorIdle
    /\ PassIdle
    /\ OutdirIdle
    /\ HandlesIdle
    /\ CacheIdle

Next == TaskNext

Spec == Init /\ [][Next]_vars

\* the store at the start of a task
InitStore ==
    /\ StoreInit
    /\ TaskIdle
    /\ GroupIdle
    /\ TitleIdle
    /\ SearchIdle
    /\ SnapshotIdle
    /\ StartInit
    /\ RetryIdle
    /\ DbInit
    /\ ValidatorIdle
    /\ PassIdle
    /\ OutdirIdle
    /\ HandlesIdle
    /\ CacheIdle

SpecStore == InitStore /\ [][StoreNext]_vars

\* a section's image list before the naming loop
InitGrouper ==
    /\ GroupInit
    /\ TaskIdle
    /\ StoreInit
    /\ TitleIdle
    /\ SearchIdle
    /\ SnapshotIdle
    /\ StartInit
    /\ RetryIdle
    /\ DbInit
    /\ ValidatorIdle
    /\ PassIdle
    /\ OutdirIdle
    /\ HandlesIdle
    /\ CacheIdle

SpecGrouper == InitGrouper /\ [][GroupNext]_vars

\* a page before the title is extracted
InitTitle ==
    /\ TitleInit
    /\ TaskIdle
    /\ StoreInit
    /\ GroupIdle
    /\ SearchIdle
    /\ SnapshotIdle
    /\ StartInit
    /\ RetryIdle
    /\ DbInit
    /\ ValidatorIdle
    /\ PassIdle
    /\ OutdirIdle
    /\ HandlesIdle
    /\ CacheIdle

SpecTitle == InitTitle /\ [][TitleNext]_vars

\* a page without the section, before an A+ parser runs
InitLocator ==
    /\ SearchInit
    /\ TaskIdle
    /\ StoreInit
    /\ GroupIdle
    /\ TitleIdle
    /\ SnapshotIdle
    /\ StartInit
    /\ RetryIdle
    /\ DbInit
    /\ ValidatorIdle
    /\ PassIdle
    /\ OutdirIdle
    /\ HandlesIdle
    /\ CacheIdle

SpecLocator == InitLocator /\ [][SearchNext]_vars

\* a parsed snapshot before the text extractors run
InitSnapshot ==
    /\ SnapshotInit
    /\ TaskIdle
    /\ StoreInit
    /\ GroupIdle
    /\ TitleIdle
    /\ SearchIdle
    /\ StartInit
    /\ RetryIdle
    /\ DbInit
    /\ ValidatorIdle
    /\ PassIdle
    /\ OutdirIdle
    /\ HandlesIdle
    /\ CacheIdle

SpecSnapshot == InitSnapshot /\ [][SnapshotNext]_vars

\* the front end before any request
InitStart ==
    /\ StartInit
    /\ TaskIdle
    /\ StoreInit
    /\ GroupIdle
    /\ TitleIdle
    /\ SearchIdle
    /\ SnapshotIdle
    /\ RetryIdle
    /\ DbInit
    /\ ValidatorIdle
    /\ PassIdle
    /\ OutdirIdle
    /\ HandlesIdle
    /\ CacheIdle

SpecStart == InitStart /\ [][StartNext]_vars

\* one invocation of _run_with_retry
InitRetry ==
    /\ RetryInit
    /\ TaskIdle
    /\ StoreInit
    /\ GroupIdle
    /\ TitleIdle
    /\ SearchIdle
    /\ SnapshotIdle
    /\ StartInit
    /\ DbInit
    /\ ValidatorIdle
    /\ PassIdle
    /\ OutdirIdle
    /\ HandlesIdle
    /\ CacheIdle

SpecRetry == InitRetry /\ [][RetryNext]_vars

\* update_task calls that carry a result summary
InitDb ==
    /\ DbInit
    /\ TaskIdle
    /\ StoreInit
    /\ GroupIdle
    /\ TitleIdle
    /\ SearchIdle
    /\ SnapshotIdle
    /\ StartInit
    /\ RetryIdle
    /\ ValidatorIdle
    /\ PassIdle
    /\ OutdirIdle
    /\ HandlesIdle
    /\ CacheIdle

SpecDb == InitDb /\ [][DbNext]_vars

\* validate calls on one envelope
InitValidator ==
    /\ ValidatorInit
    /\ TaskIdle
    /\ StoreInit
    /\ GroupIdle
    /\ TitleIdle
    /\ SearchIdle
    /\ SnapshotIdle
    /\ StartInit
    /\ RetryIdle
    /\ DbInit
    /\ PassIdle
    /\ OutdirIdle
    /\ HandlesIdle
    /\ CacheIdle

SpecValidator == InitValidator /\ [][ValidatorNext]_vars

\* one extraction pass of the text agent
InitPass ==
    /\ PassInit
    /\ TaskIdle
    /\ StoreInit
    /\ GroupIdle
    /\ TitleIdle
    /\ SearchIdle
    /\ SnapshotIdle
    /\ StartInit
    /\ RetryIdle
    /\ DbInit
    /\ ValidatorIdle
    /\ OutdirIdle
    /\ HandlesIdle
    /\ CacheIdle

SpecPass == InitPass /\ [][PassNext]_vars

\* the threads of concurrent tasks making their output directories
InitOutdir ==
    /\ OutdirInit
    /\ TaskIdle
    /\ StoreInit
    /\ GroupIdle
    /\ TitleIdle
    /\ SearchIdle
    /\ SnapshotIdle
    /\ StartInit
    /\ RetryIdle
    /\ DbInit
    /\ ValidatorIdle
    /\ PassIdle
    /\ HandlesIdle
    /\ CacheIdle

SpecOutdir == InitOutdir /\ [][OutdirNext]_vars

\* the threads of concurrent tasks with their browser handles
InitHandles ==
    /\ HandlesInit
    /\ TaskIdle
    /\ StoreInit
    /\ GroupIdle
    /\ TitleIdle
    /\ SearchIdle
    /\ SnapshotIdle
    /\ StartInit
    /\ RetryIdle
    /\ DbInit
    /\ ValidatorIdle
    /\ PassIdle
    /\ OutdirIdle
    /\ CacheIdle

SpecHandles == InitHandles /\ [][HandlesNext]_vars

\* one ParsingMetrics object with a small size limit
InitCache ==
    /\ CacheInit
    /\ TaskIdle
    /\ StoreInit
    /\ GroupIdle
    /\ TitleIdle
    /\ SearchIdle
    /\ SnapshotIdle
    /\ StartInit
    /\ RetryIdle
    /\ DbInit
    /\ ValidatorIdle
    /\ PassIdle
    /\ OutdirIdle
    /\ HandlesIdle

SpecCache == InitCache /\ [][CacheNext]_vars
====
